---- MODULE Spec2Model ----
(***************************************************************************)
(* A model of the plugin host of NebulaBrowser (class PluginManager): the  *)
(* plugin directories on disk, Node's require cache, the registry built by *)
(* loadAll, the context handed to each plugin's activation entry point,    *)
(* the contribution aggregators, setEnabled's manifest write and reload.   *)
(*                                                                         *)
(* loadAll is synchronous; the model runs it as a sequence of steps (one   *)
(* per scanned candidate, one per activated record, one per call a plugin  *)
(* makes on its context) during which no other host call can start.  The   *)
(* file write of setEnabled runs outside the JavaScript thread, so its     *)
(* steps interleave with everything.                                       *)
(***************************************************************************)
EXTENDS Integers, Sequences, FiniteSets, TLC

VARIABLES
    disk,                \* the file system: what each candidate slot of the two roots holds
    requireCache,        \* Node's require.cache: entries [path, mod]
    ipcHandlers,         \* the channels ipcMain holds a handler for
    plugins,             \* this.plugins
    rendererPreloads,    \* this.rendererPreloads
    rendererPages,       \* this.rendererPages
    listeners,           \* this._listeners: own keys -> callbacks
    webRequestHandlers,  \* this._webRequestHandlers
    contextMenuContribs, \* this._contextMenuContribs
    pc,                  \* where the JavaScript thread is
    call,                \* the host call that is about to enter loadAll
    scanIdx,             \* loadAll: the candidate being scanned
    actIdx,              \* loadAll: the record being activated
    callIdx,             \* the statement of the running activation entry point
    ctxResult,           \* how the most recent call on a context ended
    result,              \* how the most recent host call ended
    inflight,            \* setEnabled calls suspended in their file write
    held,                \* what a caller of getRendererPages holds
    passNo,              \* loadAll passes started
    envOps,              \* plugin directories removed from the disk
    setOps,              \* setEnabled calls made
    callerOps,           \* mutations a caller made to what it holds
    produced,            \* history: what the current pass has built
    invoked,             \* history: the records whose entry point the current pass invoked
    visited,             \* history: the candidates the current pass has scanned
    readable,            \* the file system: the roots whose directory can be listed
    listed,              \* what the most recent discoverPlugins or getPluginsInfo returned
    dispatch,            \* emit, applyContextMenuContrib or a request hook, while it runs
    calls,               \* history: the calls the current dispatch has made
    hooks,               \* the hooks that were attached to a session with onBeforeRequest
    entry,               \* loadAll: the entry point the activation loop last chose
    began,               \* loadAll: the host call the running pass was started by
    navPads,             \* gamepad handler: what navigator.getGamepads() returns
    winEvents,           \* gamepad handler: window events queued for dispatch
    state,               \* gamepad handler: its state object
    dispatched,          \* history: the events the running gamepad handler step emitted
    reported,            \* history: the last 'button' event emitted per pad and button
    padOps,              \* changes made to the gamepad hardware
    steamInput,          \* the SteamInputManager instance
    webContents,         \* the renderers: destroyed or not, 'destroyed' handlers held
    sent,                \* history: the 'steam-input-state' messages of the latest step
    ticked,              \* history: whether the latest tick met a controller
    steamOps             \* renderers destroyed and subscriptions made

managerVars == << disk, requireCache, ipcHandlers, plugins, rendererPreloads, rendererPages,
           listeners, webRequestHandlers, contextMenuContribs, pc, call, scanIdx,
           actIdx, callIdx, ctxResult, result, inflight, held, passNo, envOps, setOps,
           callerOps, produced, invoked, visited, readable, listed, dispatch, calls,
           hooks, entry, began >>

padVars == << navPads, winEvents, state, dispatched, reported, padOps >>

steamVars == << steamInput, webContents, sent, ticked, steamOps >>

vars == << managerVars, padVars, steamVars >>

(***************************************************************************)
(* Bounds of the model.                                                    *)
(***************************************************************************)
MaxPasses == 2
MaxEnvOps == 1
MaxCallerOps == 1
MaxSetEnabled == 1
MaxItems == 2
MaxHooks == 3
MaxLate == 1

(***************************************************************************)
(* Paths and URLs.  A path is its sequence of segments; a file URL is the  *)
(* scheme with the segments of the absolute path.                          *)
(***************************************************************************)
Roots == << "app", "user" >>

Dirs == { "a1", "a2", "u1" }

\* fs.readdirSync(root): the entries of a root, in listing order.
Entries(root) == IF root = "app" THEN << "a1", "a2" >> ELSE << "u1" >>

\* getPluginDirs(): [appDir, userDir], each the root joined with 'plugins'.
getPluginDirs == [ k \in 1..2 |-> << Roots[k], "plugins" >> ]

RootOf(d) == IF d \in { "a1", "a2" } THEN 1 ELSE 2

\* A file name that leads out of its directory, into the one above.
Shared == "../shared.js"

\* A manifest field that holds a number (not 0) where a file name is expected.
NumberValue == "<number>"

\* path.join throws a TypeError for an argument that is no string.
PathJoinThrows(name) == name = NumberValue

\* path.join(a, name): the joined path, normalized.
PathJoin(a, name) ==
    IF name = Shared
    THEN Append(SubSeq(a, 1, Len(a) - 1), "shared.js")
    ELSE Append(a, name)

\* path.join(root, ent.name)
DirPath(d) == PathJoin(getPluginDirs[RootOf(d)], d)

Cwd == << "cwd" >>

NullUrl == [ scheme |-> "null", segs |-> << >> ]

\* url.pathToFileURL(html): throws for a value that is no string; resolves a
\* relative path against the working directory.
PathToFileURL(html) ==
    [ ok   |-> html.kind = "string",
      href |-> [ scheme |-> "file",
                 segs   |-> IF html.abs THEN html.segs ELSE Cwd \o html.segs ] ]

AbsHtml == [ kind |-> "string", abs |-> TRUE, segs |-> << "abs", "page.html" >> ]
RelHtml == [ kind |-> "string", abs |-> FALSE, segs |-> << "page.html" >> ]
EmptyHtml == [ kind |-> "string", abs |-> FALSE, segs |-> << >> ]
NumberHtml == [ kind |-> "number", abs |-> FALSE, segs |-> << "42" >> ]

\* JavaScript's !html
Falsy(html) == html.kind = "undefined" \/ (html.kind = "string" /\ ~html.abs /\ html.segs = << >>)

(***************************************************************************)
(* Plugin code.  A main module either throws while it is loaded or exports *)
(* a shape; its activation entry point is a straight-line script of calls  *)
(* on the context it is given.                                             *)
(***************************************************************************)
CtxCall(op, name, hasArg, html) == [ op |-> op, name |-> name, hasArg |-> hasArg, html |-> html ]

On(evt) == CtxCall("on", evt, TRUE, EmptyHtml)
RegisterIPC(channel) == CtxCall("registerIPC", channel, TRUE, EmptyHtml)
RegisterWebRequest == CtxCall("registerWebRequest", "", TRUE, EmptyHtml)
RegisterWebRequestNoFilter == CtxCall("registerWebRequest", "", FALSE, EmptyHtml)
ContributeContextMenu == CtxCall("contributeContextMenu", "", TRUE, EmptyHtml)
RegisterRendererPage(id, html) == CtxCall("registerRendererPage", id, TRUE, html)
RegisterRendererPageNoArg == CtxCall("registerRendererPage", "", FALSE, EmptyHtml)
Throw == CtxCall("throw", "", TRUE, EmptyHtml)

Codes == { "good", "thrower", "fn", "inert", "pager", "pagerNum", "pagerRel",
           "onProto", "noArg", "broken", "both", "falsy" }

\* Whether the module throws while require loads it.
LoadThrows(code) == code = "broken"

\* What the module exports: an object with activate, a function, a function
\* that has a member activate which is a function too, a falsy value (null, 0,
\* false, ''), or another value.
Shape(code) ==
    CASE code \in { "fn" } -> "function"
      [] code \in { "both" } -> "both"
      [] code \in { "falsy" } -> "falsy"
      [] code \in { "inert" } -> "neither"
      [] OTHER -> "activate"

Script(code) ==
    CASE code = "good"     -> << RegisterWebRequest, ContributeContextMenu, On("app-ready"),
                                 RegisterIPC("ch") >>
      [] code = "thrower"  -> << ContributeContextMenu, Throw >>
      [] code = "fn"       -> << RegisterIPC("ch"), RegisterRendererPage("", AbsHtml),
                                 RegisterRendererPage("pg", EmptyHtml), On("custom"),
                                 RegisterWebRequestNoFilter >>
      [] code = "pager"    -> << RegisterRendererPage("pg", AbsHtml), RegisterWebRequest >>
      [] code = "pagerNum" -> << RegisterRendererPage("pg", NumberHtml) >>
      [] code = "pagerRel" -> << ContributeContextMenu, RegisterRendererPage("pg", RelHtml) >>
      [] code = "onProto"  -> << On("constructor"), RegisterWebRequest >>
      [] code = "noArg"    -> << RegisterRendererPageNoArg, ContributeContextMenu >>
      [] code = "both"     -> << On("custom"), RegisterWebRequest >>
      [] OTHER             -> << >>

\* What the entry point loadAll chose runs: a module that is callable and has
\* activate does one thing when it is called and another in its activate.
EntryScript(code, chosen) ==
    IF code = "both" /\ chosen = "module"
    THEN << RegisterIPC("viaModule") >>
    ELSE Script(code)

(***************************************************************************)
(* JSON values of a manifest's categories and authors.  An element of an   *)
(* array is a string, an object with a string name, an object with a       *)
(* number (not 0) as its name, an object without a name, a number (not 0)  *)
(* or null; a field is absent, null, a string, a number or an array.       *)
(***************************************************************************)
Item(t, s) == [ t |-> t, s |-> s ]

Str(s) == Item("string", s)

Named(s) == Item("named", s)

NumNamed(s) == Item("numNamed", s)

Unnamed == Item("unnamed", "")

Num(s) == Item("number", s)

Null == Item("null", "")

Field(t, s, items) == [ t |-> t, s |-> s, items |-> items ]

AbsentField == Field("absent", "", << >>)

NullField == Field("null", "", << >>)

StringField(s) == Field("string", s, << >>)

NumberField(s) == Field("number", s, << >>)

ArrayField(items) == Field("array", "", items)

\* typeof x === 'string'
IsString(x) == x.t = "string"

\* x.name of an element (undefined: null here)
NameOf(x) ==
    CASE x.t = "named" -> Str(x.s)
      [] x.t = "numNamed" -> Num(x.s)
      [] OTHER -> Null

\* Boolean(x) of an element or of a name
Truthy(x) == x.t \in { "named", "numNamed", "unnamed", "number" } \/ (x.t = "string" /\ x.s # "")

(***************************************************************************)
(* The disk.  Each slot of a root is absent, or a plugin directory with a  *)
(* manifest file (parseable or not), a main module and a preload file.     *)
(***************************************************************************)
Manifest(ok, id, enabled, main, rendererPreload) ==
    [ ok |-> ok, id |-> id, enabled |-> enabled, main |-> main,
      rendererPreload |-> rendererPreload, categories |-> AbsentField,
      authors |-> AbsentField, name |-> "" ]

Slot(kind, manifest, code, preloadExists) ==
    [ kind |-> kind, manifest |-> manifest, code |-> code, preloadExists |-> preloadExists ]

NoManifest == Manifest(FALSE, "", "absent", "", "")

Absent == Slot("absent", NoManifest, "inert", FALSE)

Package(id, enabled, code, rendererPreload, preloadExists) ==
    Slot("dir", Manifest(TRUE, id, enabled, "index.js", rendererPreload), code, preloadExists)

\* A directory with a preload and no main module.
PreloadOnly == Slot("dir", Manifest(TRUE, "", "absent", "", "preload.js"), "inert", TRUE)

\* A directory whose plugin.json is missing or does not parse.
Malformed == Slot("dir", NoManifest, "good", FALSE)

\* An entry of a root that is no directory.
FileEntry == Slot("file", NoManifest, "inert", FALSE)

InitialSlots(d) ==
    CASE d = "a1" -> { Absent,
                       Package("p", "absent", "good", "preload.js", TRUE),
                       Package("", "true", "thrower", "", FALSE),
                       Package("q", "absent", "broken", "preload.js", FALSE),
                       Package("p", "true", "pager", "", FALSE),
                       Package("", "absent", "onProto", "", FALSE) }
      [] d = "a2" -> { Absent,
                       Malformed,
                       Package("q", "false", "good", "preload.js", TRUE),
                       Package("q", "absent", "fn", "", FALSE),
                       Package("", "absent", "noArg", "", FALSE),
                       Package("q", "absent", "pagerNum", "", FALSE) }
      [] OTHER    -> { Absent,
                       Package("p", "absent", "good", "preload.js", TRUE),
                       Package("", "absent", "pagerRel", "", FALSE),
                       Package("q", "absent", "inert", "", FALSE),
                       PreloadOnly }

IdArgs == { "p", "q", "a1", "zz" }

(***************************************************************************)
(* Values of the registry.                                                 *)
(***************************************************************************)
NoCall == [ name |-> "none", id |-> "" ]

NoMod == [ gen |-> 0, code |-> "none" ]

NoPath == << >>

NothingHeld == [ valid |-> FALSE, list |-> << >>, shared |-> FALSE ]

NothingListed == [ by |-> "none", list |-> << >> ]

NoDispatch == [ op |-> "none", name |-> "", idx |-> 0, args |-> "", atStart |-> 0 ]

NothingProduced == [ plugins |-> << >>, preloads |-> << >>, pages |-> << >>,
                     web |-> << >>, menu |-> << >> ]

OwnEvents == { "app-ready", "window-created", "web-contents-created", "session-configured" }

\* Names every object inherits from Object.prototype.
ProtoKeys == { "constructor", "toString", "hasOwnProperty", "__proto__" }

(***************************************************************************)
(* The gamepad handler of the renderer: the values of its state object and *)
(* of the Gamepad API it polls.                                            *)
(***************************************************************************)
\* Bounds of the gamepad model.
MaxPads == 2
MaxButtons == 1
MaxPadOps == 3
MaxPadListeners == 2

\* The indices of navigator.getGamepads() and the buttons of a gamepad.
PadIdx == 0..(MaxPads - 1)

Buttons == 0..(MaxButtons - 1)

\* activeGamepadIndex: null
NoIndex == -1

\* A slot of navigator.getGamepads() that holds null.
NoPad == [ present |-> FALSE, pressed |-> [ b \in Buttons |-> FALSE ] ]

\* state.buttonStates[index] is undefined, or an object; b[k] is what
\* buttonState[`b${k}`] || false gives.
NoButtonState == [ held |-> FALSE, b |-> [ k \in Buttons |-> FALSE ] ]

EmptyButtonState == [ held |-> TRUE, b |-> [ k \in Buttons |-> FALSE ] ]

PadEventTypes == { "connect", "disconnect", "button", "axis", "input" }

\* The callbacks a page registers with on(): one returns, one throws, one
\* calls the unsubscribe function on() returned for it.
PadCallback(name, does) == [ name |-> name, does |-> does ]

PadCallbacks ==
    { PadCallback("keep", "returns"), PadCallback("bad", "throws"),
      PadCallback("once", "unsubscribes") }

\* The state object when the script has been evaluated.
GamepadState ==
    [ initialized |-> FALSE, gamepads |-> {}, connectedCount |-> 0,
      activeGamepadIndex |-> NoIndex, rafId |-> FALSE,
      buttonStates |-> [ i \in PadIdx |-> NoButtonState ],
      listeners |-> [ t \in PadEventTypes |-> << >> ] ]

NeverReported == [ i \in PadIdx |-> [ b \in Buttons |-> "none" ] ]

\* The page has evaluated the script and init has not run yet.
GamepadLoaded ==
    /\ navPads = [ i \in PadIdx |-> NoPad ]
    /\ winEvents = << >>
    /\ state = GamepadState
    /\ dispatched = << >>
    /\ reported = NeverReported
    /\ padOps = 0

(***************************************************************************)
(* SteamInputManager: what its constructor meets and leaves.               *)
(***************************************************************************)
\* Bounds of the Steam input model.
MaxWc == 2
MaxSteamOps == 2

\* The ids of the renderers' webContents.
WcIds == 1..MaxWc

\* What init() meets: how far Steamworks comes up and which handles the
\* action manifest yields (the directional, nav, confirm and back handles).
SteamEnv(boot, actionSet, directional, analogNav, confirm, back) ==
    [ boot |-> boot, actionSet |-> actionSet, directional |-> directional,
      analogNav |-> analogNav, confirm |-> confirm, back |-> back ]

\* bootstrapHandles: handlesReady
HandlesReady(env) ==
    env.actionSet /\ (env.directional \/ env.analogNav) /\ env.confirm /\ env.back

\* The fields the constructor sets before init() runs.
SteamFields ==
    [ available |-> FALSE, input |-> FALSE, actionSet |-> FALSE, handlesReady |-> FALSE,
      handlesReason |-> "uninitialized", subscribers |-> << >>,
      cachedState |-> [ connected |-> FALSE, reason |-> "undefined" ],
      pollInterval |-> FALSE ]

\* init(): the instance it leaves for what it meets.
SteamInit(env) ==
    CASE env.boot = "disabled-via-env" ->
             [ SteamFields EXCEPT !.handlesReason = "disabled-via-env" ]
      [] env.boot = "module-missing" ->
             [ SteamFields EXCEPT !.handlesReason = "module-missing" ]
      [] env.boot = "init-failed" ->
             [ SteamFields EXCEPT !.handlesReason = "init-failed" ]
      [] env.boot = "handles-error" ->
             [ SteamFields EXCEPT !.available = TRUE, !.input = TRUE,
                                  !.handlesReason = "handles-error",
                                  !.pollInterval = TRUE ]
      [] OTHER ->
             [ SteamFields EXCEPT !.available = TRUE, !.input = TRUE,
                                  !.actionSet = env.actionSet,
                                  !.handlesReady = HandlesReady(env),
                                  !.handlesReason = IF HandlesReady(env) THEN "ok"
                                                    ELSE "handles-missing",
                                  !.pollInterval = TRUE ]

\* What a tick meets: whether getControllers() throws, whether it yields a
\* controller, and how activating the action set and reading the controller end.
TickEnv(query, controller, activate, build) ==
    [ query |-> query, controller |-> controller, activate |-> activate, build |-> build ]

\* A renderer that lives and holds no 'destroyed' handler of the manager.
LiveWc == [ destroyed |-> FALSE, handlers |-> 0 ]

\* new SteamInputManager(), before its last statement calls init().
SteamInputConstructed ==
    /\ steamInput = SteamFields
    /\ webContents = [ w \in WcIds |-> LiveWc ]
    /\ sent = << >>
    /\ ticked = FALSE
    /\ steamOps = 0

\* The state after construction, whatever the disk holds.
Constructed ==
    /\ requireCache = { }
    /\ ipcHandlers = { }
    /\ plugins = << >>
    /\ rendererPreloads = << >>
    /\ rendererPages = << >>
    /\ listeners = [ e \in OwnEvents |-> << >> ]
    /\ webRequestHandlers = << >>
    /\ contextMenuContribs = << >>
    /\ pc = "idle"
    /\ call = NoCall
    /\ scanIdx = 0
    /\ actIdx = 0
    /\ callIdx = 0
    /\ ctxResult = "none"
    /\ result = "none"
    /\ inflight = << >>
    /\ held = NothingHeld
    /\ passNo = 0
    /\ envOps = 0
    /\ setOps = 0
    /\ callerOps = 0
    /\ produced = NothingProduced
    /\ invoked = << >>
    /\ visited = << >>
    /\ listed = NothingListed
    /\ dispatch = NoDispatch
    /\ calls = << >>
    /\ hooks = << >>
    /\ entry = "none"
    /\ began = NoCall
    /\ GamepadLoaded
    /\ SteamInputConstructed

Init ==
    /\ disk \in [ Dirs -> UNION { InitialSlots(d) : d \in Dirs } ]
    /\ \A d \in Dirs : disk[d] \in InitialSlots(d)
    /\ readable = DOMAIN getPluginDirs
    /\ Constructed

(***************************************************************************)
(* require and its cache.                                                  *)
(***************************************************************************)
\* The slot a path below a plugin directory lies in.
SlotOf(path) == path[3]

Cached(cache, path) == \E e \in cache : e.path = path

CacheGet(cache, path) == (CHOOSE e \in cache : e.path = path).mod

CacheDrop(cache, path) == { e \in cache : e.path # path }

\* Whether the file at path is on the disk.
FileExists(path) == disk[SlotOf(path)].kind = "dir"

\* require(mainPath): the cached instance if there is one; otherwise the file
\* is loaded, which throws (and caches nothing) or yields a new instance.
Require(cache, path) ==
    IF Cached(cache, path)
    THEN [ threw |-> FALSE, mod |-> CacheGet(cache, path), cache |-> cache ]
    ELSE IF ~FileExists(path) \/ LoadThrows(disk[SlotOf(path)].code)
    THEN [ threw |-> TRUE, mod |-> NoMod, cache |-> cache ]
    ELSE LET m == [ gen |-> passNo, code |-> disk[SlotOf(path)].code ]
         IN  [ threw |-> FALSE, mod |-> m, cache |-> cache \cup { [ path |-> path, mod |-> m ] } ]

(***************************************************************************)
(* loadAll: the scan of the candidates.                                    *)
(***************************************************************************)
ScanList_UserFirst ==
    LET all == Entries(Roots[2]) \o Entries(Roots[1])
    IN  SelectSeq(all, LAMBDA d : RootOf(d) \in readable /\ disk[d].kind # "absent")

\* The candidates of both roots in the order loadAll meets them; readdirSync
\* throws for a root that cannot be listed, and the root is skipped.
ScanList ==
    LET all == Entries(Roots[1]) \o Entries(Roots[2])
    IN  SelectSeq(all, LAMBDA d : RootOf(d) \in readable /\ disk[d].kind # "absent")

ManifestParses_Always(d) == TRUE

\* JSON.parse(fs.readFileSync(manifestPath)): fails on a missing, empty or
\* malformed file.
ManifestParses(d) == disk[d].manifest.ok

\* manifest.enabled !== false
IsEnabled(manifest) == manifest.enabled # "false"

\* manifest.id || ent.name
RecordId(manifest, ent) == IF manifest.id # "" THEN manifest.id ELSE ent

NormalizeCategories_KeepsAll(cats) ==
    CASE cats.t = "string" -> ArrayField(<< Str(cats.s) >>)
      [] cats.t = "array" -> cats
      [] cats.t \in { "absent", "null" } -> ArrayField(<< >>)
      [] OTHER -> cats

\* loadAll's normalization of categories: a string becomes a one-element
\* array, an array keeps its strings, null and undefined become [], anything
\* else stays.
NormalizeCategories(cats) ==
    CASE cats.t = "string" -> ArrayField(<< Str(cats.s) >>)
      [] cats.t = "array" -> ArrayField(SelectSeq(cats.items, IsString))
      [] cats.t \in { "absent", "null" } -> ArrayField(<< >>)
      [] OTHER -> cats

\* loadAll's normalization of authors: as for categories, and an array also
\* keeps its objects with a string name.
NormalizeAuthors(au) ==
    CASE au.t = "string" -> ArrayField(<< Str(au.s) >>)
      [] au.t = "array" ->
             ArrayField(SelectSeq(au.items, LAMBDA x : IsString(x) \/ x.t = "named"))
      [] au.t \in { "absent", "null" } -> ArrayField(<< >>)
      [] OTHER -> au

NormalizeManifest(manifest) ==
    [ manifest EXCEPT !.categories = NormalizeCategories(@),
                      !.authors = NormalizeAuthors(@) ]

LoadMain_KeepsPath(cache, mainPath) ==
    LET r == Require(cache, mainPath)
    IN  [ mod |-> r.mod, mainPath |-> mainPath, cache |-> r.cache, aborted |-> FALSE ]

LoadMain_NoCatch(cache, mainPath) ==
    LET r == Require(cache, mainPath)
    IN  [ mod |-> r.mod, mainPath |-> IF r.threw THEN NoPath ELSE mainPath,
          cache |-> r.cache, aborted |-> r.threw ]

\* The try around require: a module that throws leaves mod and mainPath null.
LoadMain(cache, mainPath) ==
    LET r == Require(cache, mainPath)
    IN  [ mod |-> r.mod, mainPath |-> IF r.threw THEN NoPath ELSE mainPath,
          cache |-> r.cache, aborted |-> FALSE ]

\* The record loadAll builds for candidate d, with the cache it leaves.  The
\* path of the preload is joined outside the try around the existence check:
\* when the join throws, the exception leaves loadAll.
BuildRecord(d) ==
    LET manifest == disk[d].manifest
        dir      == DirPath(d)
        enabled  == IsEnabled(manifest)
        loaded   == IF enabled /\ manifest.main # ""
                    THEN LoadMain(requireCache, PathJoin(dir, manifest.main))
                    ELSE [ mod |-> NoMod, mainPath |-> NoPath, cache |-> requireCache,
                           aborted |-> FALSE ]
    IN  [ record  |-> [ id |-> RecordId(manifest, d), dir |-> dir,
                        manifest |-> NormalizeManifest(manifest),
                        enabled |-> enabled, mod |-> loaded.mod,
                        mainPath |-> loaded.mainPath ],
          cache   |-> loaded.cache,
          aborted |-> \/ loaded.aborted
                      \/ enabled /\ PathJoinThrows(manifest.rendererPreload),
          preload |-> IF enabled /\ manifest.rendererPreload # "" /\ disk[d].preloadExists
                      THEN << PathJoin(dir, manifest.rendererPreload) >>
                      ELSE << >> ]

PushRecord_UserOverrides(ps, record) ==
    IF \E i \in 1..Len(ps) : ps[i].id = record.id
    THEN [ i \in 1..Len(ps) |-> IF ps[i].id = record.id THEN record ELSE ps[i] ]
    ELSE Append(ps, record)

\* this.plugins.push(record): no look at the records already there.
PushRecord(ps, record) == Append(ps, record)

LoadAllClear_KeepsPages ==
    /\ plugins' = << >>
    /\ rendererPreloads' = << >>
    /\ rendererPages' = rendererPages

\* this.plugins = []; this.rendererPreloads = []; this.rendererPages = [];
LoadAllClear ==
    /\ plugins' = << >>
    /\ rendererPreloads' = << >>
    /\ rendererPages' = << >>

\* The host calls loadAll().
CallLoadAll ==
    /\ pc = "idle"
    /\ passNo < MaxPasses
    /\ pc' = "enter"
    /\ result' = "none"
    /\ call' = [ name |-> "loadAll", id |-> "" ]
    /\ UNCHANGED << disk, requireCache, ipcHandlers, plugins, rendererPreloads,
                    rendererPages, listeners, webRequestHandlers, contextMenuContribs,
                    scanIdx, actIdx, callIdx, ctxResult, inflight, held, passNo, envOps, setOps,
                    callerOps, produced, invoked, visited >>
    /\ UNCHANGED << readable, listed, dispatch, calls, hooks >>
    /\ UNCHANGED << entry, began, padVars, steamVars >>

\* loadAll's first statements.  The three collections are new arrays: what a
\* caller of getRendererPages holds from before is no longer connected to them,
\* and is forgotten.
LoadAllEnter ==
    /\ pc = "enter"
    /\ LoadAllClear
    /\ pc' = "scan"
    /\ scanIdx' = 1
    /\ passNo' = passNo + 1
    /\ held' = NothingHeld
    /\ produced' = NothingProduced
    /\ invoked' = << >>
    /\ visited' = << >>
    /\ call' = NoCall
    /\ UNCHANGED << disk, requireCache, ipcHandlers, listeners, webRequestHandlers,
                    contextMenuContribs, actIdx, callIdx, ctxResult, result,
                    inflight, envOps, setOps, callerOps >>
    /\ UNCHANGED << readable, listed, dispatch, calls, hooks >>
    /\ entry' = "none"
    /\ began' = call
    /\ UNCHANGED << padVars, steamVars >>

\* One iteration of the loop over a root's entries.
ScanCandidate ==
    /\ pc = "scan"
    /\ scanIdx <= Len(ScanList)
    /\ LET d == ScanList[scanIdx]
           b == BuildRecord(d)
       IN  /\ visited' = Append(visited, d)
           /\ IF disk[d].kind # "dir" \/ ~ManifestParses(d)
              THEN /\ scanIdx' = scanIdx + 1
                   /\ UNCHANGED << requireCache, plugins, rendererPreloads, produced, pc,
                                   result >>
              ELSE IF b.aborted
              THEN /\ pc' = "idle"
                   /\ result' = "threw"
                   /\ scanIdx' = 0
                   /\ requireCache' = b.cache
                   /\ UNCHANGED << plugins, rendererPreloads, produced >>
              ELSE /\ scanIdx' = scanIdx + 1
                   /\ requireCache' = b.cache
                   /\ plugins' = PushRecord(plugins, b.record)
                   /\ rendererPreloads' = rendererPreloads \o b.preload
                   /\ produced' = [ produced EXCEPT !.plugins = Append(@, b.record),
                                                    !.preloads = @ \o b.preload ]
                   /\ UNCHANGED << pc, result >>
    /\ UNCHANGED << call, disk, ipcHandlers, rendererPages, listeners, webRequestHandlers,
                    contextMenuContribs, actIdx, callIdx, ctxResult, inflight, held,
                    passNo, envOps, setOps, callerOps, invoked >>
    /\ UNCHANGED << readable, listed, dispatch, calls, hooks >>
    /\ UNCHANGED << entry, began, padVars, steamVars >>

\* Both roots are scanned: the activation pass starts.
ScanDone ==
    /\ pc = "scan"
    /\ scanIdx > Len(ScanList)
    /\ pc' = "activate"
    /\ scanIdx' = 0
    /\ actIdx' = 1
    /\ UNCHANGED << call, disk, requireCache, ipcHandlers, plugins, rendererPreloads,
                    rendererPages, listeners, webRequestHandlers, contextMenuContribs,
                    callIdx, ctxResult, result, inflight, held, passNo, envOps, setOps,
                    callerOps, produced, invoked, visited >>
    /\ UNCHANGED << readable, listed, dispatch, calls, hooks >>
    /\ UNCHANGED << entry, began, padVars, steamVars >>

(***************************************************************************)
(* The context of a plugin (_buildContext) and the calls a plugin makes on *)
(* it.  Each operator gives the state the call leaves and whether an       *)
(* exception left the call, into the plugin's code.                        *)
(***************************************************************************)
\* The function a plugin passes in its n-th statement.
Callback(d, n) == [ plugin |-> d, n |-> n ]

\* this._listeners[evt]: an own list, a member inherited from Object.prototype,
\* or undefined.
ListenersLookup(ls, evt) ==
    IF evt \in DOMAIN ls THEN "array"
    ELSE IF evt \in ProtoKeys THEN "inherited"
    ELSE "undefined"

\* on(evt, cb): no try; push is no function of an inherited member.
ManagerOn(ls, evt, cb) ==
    CASE ListenersLookup(ls, evt) = "array" ->
             [ threw |-> FALSE, listeners |-> [ ls EXCEPT ![evt] = Append(@, cb) ] ]
      [] ListenersLookup(ls, evt) = "undefined" ->
             [ threw |-> FALSE, listeners |-> (evt :> << cb >>) @@ ls ]
      [] OTHER ->
             [ threw |-> TRUE, listeners |-> ls ]

\* registerIPC: ipcMain.handle refuses a second handler for a channel by
\* throwing; the try around it logs that.
CtxRegisterIPC(handlers, channel) ==
    [ threw |-> FALSE, handlers |-> handlers \cup { channel } ]

\* registerWebRequest: push { filter, listener } within a try; the filter is
\* undefined when the plugin gave none.
CtxRegisterWebRequest(hs, c, cb) ==
    [ threw |-> FALSE,
      handlers |-> Append(hs, [ filter |-> IF c.hasArg THEN "filter" ELSE "undefined",
                                listener |-> cb ]) ]

\* contributeContextMenu: push contribFn within a try.
CtxContributeContextMenu(cs, cb) ==
    [ threw |-> FALSE, contribs |-> Append(cs, cb) ]

\* Whether the manager has a method log, and a method error: the class defines
\* neither, so manager.log(...) and manager.error(...) each throw a TypeError.
ManagerHasLog == FALSE

ManagerHasError == FALSE

PageEntry(id, html, fileUrl, pluginId) ==
    [ id |-> id, file |-> html, fileUrl |-> fileUrl, pluginId |-> pluginId ]

CtxRegisterRendererPage_NoGuard(pages, c, pluginId) ==
    IF ~c.hasArg
    THEN [ threw |-> TRUE, pages |-> pages ]
    ELSE LET u == PathToFileURL(c.html)
             fileUrl == IF u.ok THEN u.href ELSE NullUrl
         IN  [ threw |-> ~ManagerHasLog /\ ~ManagerHasError,
               pages |-> Append(pages, PageEntry(c.name, c.html, fileUrl, pluginId)) ]

\* registerRendererPage({ id, html }): the parameter is destructured before
\* the try; within it, an empty id or html returns, the URL conversion has a
\* try of its own, the entry is pushed, and manager.log is called; the catch
\* calls manager.error.
CtxRegisterRendererPage(pages, c, pluginId) ==
    IF ~c.hasArg
    THEN [ threw |-> TRUE, pages |-> pages ]
    ELSE IF c.name = "" \/ Falsy(c.html)
    THEN [ threw |-> FALSE, pages |-> pages ]
    ELSE LET u == PathToFileURL(c.html)
             fileUrl == IF u.ok THEN u.href ELSE NullUrl
         IN  [ threw |-> ~ManagerHasLog /\ ~ManagerHasError,
               pages |-> Append(pages, PageEntry(c.name, c.html, fileUrl, pluginId)) ]

(***************************************************************************)
(* loadAll: the activation pass.                                           *)
(***************************************************************************)
EntryPoint_ModuleFirst(mod) ==
    CASE Shape(mod.code) \in { "function", "both" } -> "module"
      [] Shape(mod.code) = "activate" -> "activate"
      [] OTHER -> "none"

\* What loadAll calls of a module: activate if it is a function, else the
\* module if it is one, else nothing.
EntryPoint(mod) ==
    CASE Shape(mod.code) \in { "activate", "both" } -> "activate"
      [] Shape(mod.code) = "function" -> "module"
      [] OTHER -> "none"

\* The record being activated, its script and the statement it is at.
Cur == plugins[actIdx]

CurScript == EntryScript(Cur.mod.code, entry)

CurCall == CurScript[callIdx]

AtCall(op) ==
    /\ pc = "call"
    /\ callIdx <= Len(CurScript)
    /\ CurCall.op = op

ActivationThrew_Propagates ==
    /\ pc' = "idle"
    /\ result' = "threw"
    /\ actIdx' = 0
    /\ callIdx' = 0

\* The catch around an activation: log, and go on to the next record.
ActivationThrew ==
    /\ pc' = "activate"
    /\ actIdx' = actIdx + 1
    /\ callIdx' = 0
    /\ UNCHANGED << result >>

\* After a call on the context: the plugin's next statement, or, when the call
\* threw into the plugin's code, the end of this activation.
AfterCtxCall(threw) ==
    /\ ctxResult' = IF threw THEN "threw" ELSE "returned"
    /\ IF threw
       THEN ActivationThrew
       ELSE /\ callIdx' = callIdx + 1
            /\ UNCHANGED << pc, result, actIdx >>

\* One iteration of the loop over this.plugins.
ActivateRecord ==
    /\ pc = "activate"
    /\ actIdx <= Len(plugins)
    /\ IF Cur.enabled /\ Cur.mod # NoMod /\ EntryPoint(Cur.mod) # "none"
       THEN /\ pc' = "call"
            /\ callIdx' = 1
            /\ invoked' = Append(invoked, actIdx)
            /\ entry' = EntryPoint(Cur.mod)
            /\ UNCHANGED actIdx
       ELSE /\ actIdx' = actIdx + 1
            /\ entry' = "none"
            /\ UNCHANGED << pc, callIdx, invoked >>
    /\ UNCHANGED << call, disk, requireCache, ipcHandlers, plugins, rendererPreloads,
                    rendererPages, listeners, webRequestHandlers, contextMenuContribs,
                    scanIdx, ctxResult, result, inflight, held, passNo, envOps, setOps,
                    callerOps, produced, visited >>
    /\ UNCHANGED << readable, listed, dispatch, calls, hooks, began, padVars, steamVars >>

\* loadAll returns.
LoadAllReturn ==
    /\ pc = "activate"
    /\ actIdx > Len(plugins)
    /\ pc' = "idle"
    /\ result' = "returned"
    /\ actIdx' = 0
    /\ began' = NoCall
    /\ UNCHANGED << padVars, steamVars >>
    /\ UNCHANGED << call, disk, requireCache, ipcHandlers, plugins, rendererPreloads,
                    rendererPages, listeners, webRequestHandlers, contextMenuContribs,
                    scanIdx, callIdx, ctxResult, inflight, held, passNo, envOps, setOps,
                    callerOps, produced, invoked, visited >>
    /\ entry' = "none"
    /\ UNCHANGED << readable, listed, dispatch, calls, hooks >>

\* The entry point returns.
ActivateReturn ==
    /\ pc = "call"
    /\ callIdx > Len(CurScript)
    /\ pc' = "activate"
    /\ actIdx' = actIdx + 1
    /\ callIdx' = 0
    /\ UNCHANGED << call, disk, requireCache, ipcHandlers, plugins, rendererPreloads,
                    rendererPages, listeners, webRequestHandlers, contextMenuContribs,
                    scanIdx, ctxResult, result, inflight, held, passNo, envOps, setOps,
                    callerOps, produced, invoked, visited >>
    /\ UNCHANGED << readable, listed, dispatch, calls, hooks >>
    /\ entry' = "none"
    /\ UNCHANGED << began, padVars, steamVars >>

\* The entry point throws.
PluginThrows ==
    /\ AtCall("throw")
    /\ ActivationThrew
    /\ UNCHANGED << call, disk, requireCache, ipcHandlers, plugins, rendererPreloads,
                    rendererPages, listeners, webRequestHandlers, contextMenuContribs,
                    scanIdx, ctxResult, inflight, held, passNo, envOps, setOps, callerOps,
                    produced, invoked, visited >>
    /\ UNCHANGED << readable, listed, dispatch, calls, hooks >>
    /\ UNCHANGED << entry, began, padVars, steamVars >>

PluginOn ==
    /\ AtCall("on")
    /\ LET r == ManagerOn(listeners, CurCall.name, Callback(SlotOf(Cur.dir), callIdx))
       IN  /\ listeners' = r.listeners
           /\ AfterCtxCall(r.threw)
    /\ UNCHANGED << call, disk, requireCache, ipcHandlers, plugins, rendererPreloads,
                    rendererPages, webRequestHandlers, contextMenuContribs, scanIdx,
                    inflight, held, passNo, envOps, setOps, callerOps, produced, invoked,
                    visited >>
    /\ UNCHANGED << readable, listed, dispatch, calls, hooks >>
    /\ UNCHANGED << entry, began, padVars, steamVars >>

PluginRegisterIPC ==
    /\ AtCall("registerIPC")
    /\ LET r == CtxRegisterIPC(ipcHandlers, CurCall.name)
       IN  /\ ipcHandlers' = r.handlers
           /\ AfterCtxCall(r.threw)
    /\ UNCHANGED << call, disk, requireCache, plugins, rendererPreloads, rendererPages,
                    listeners, webRequestHandlers, contextMenuContribs, scanIdx,
                    inflight, held, passNo, envOps, setOps, callerOps, produced, invoked,
                    visited >>
    /\ UNCHANGED << readable, listed, dispatch, calls, hooks >>
    /\ UNCHANGED << entry, began, padVars, steamVars >>

PluginRegisterWebRequest ==
    /\ AtCall("registerWebRequest")
    /\ LET r == CtxRegisterWebRequest(webRequestHandlers, CurCall,
                                      Callback(SlotOf(Cur.dir), callIdx))
       IN  /\ webRequestHandlers' = r.handlers
           /\ produced' = [ produced EXCEPT !.web =
                  @ \o SubSeq(r.handlers, Len(webRequestHandlers) + 1, Len(r.handlers)) ]
           /\ AfterCtxCall(r.threw)
    /\ UNCHANGED << call, disk, requireCache, ipcHandlers, plugins, rendererPreloads,
                    rendererPages, listeners, contextMenuContribs, scanIdx, inflight,
                    held, passNo, envOps, setOps, callerOps, invoked, visited >>
    /\ UNCHANGED << readable, listed, dispatch, calls, hooks >>
    /\ UNCHANGED << entry, began, padVars, steamVars >>

PluginContributeContextMenu ==
    /\ AtCall("contributeContextMenu")
    /\ LET r == CtxContributeContextMenu(contextMenuContribs,
                                         Callback(SlotOf(Cur.dir), callIdx))
       IN  /\ contextMenuContribs' = r.contribs
           /\ produced' = [ produced EXCEPT !.menu =
                  @ \o SubSeq(r.contribs, Len(contextMenuContribs) + 1, Len(r.contribs)) ]
           /\ AfterCtxCall(r.threw)
    /\ UNCHANGED << call, disk, requireCache, ipcHandlers, plugins, rendererPreloads,
                    rendererPages, listeners, webRequestHandlers, scanIdx, inflight,
                    held, passNo, envOps, setOps, callerOps, invoked, visited >>
    /\ UNCHANGED << readable, listed, dispatch, calls, hooks >>
    /\ UNCHANGED << entry, began, padVars, steamVars >>

PluginRegisterRendererPage ==
    /\ AtCall("registerRendererPage")
    /\ LET r == CtxRegisterRendererPage(rendererPages, CurCall, Cur.id)
       IN  /\ rendererPages' = r.pages
           /\ produced' = [ produced EXCEPT !.pages =
                  @ \o SubSeq(r.pages, Len(rendererPages) + 1, Len(r.pages)) ]
           /\ AfterCtxCall(r.threw)
    /\ UNCHANGED << call, disk, requireCache, ipcHandlers, plugins, rendererPreloads,
                    listeners, webRequestHandlers, contextMenuContribs, scanIdx,
                    inflight, held, passNo, envOps, setOps, callerOps, invoked, visited >>
    /\ UNCHANGED << readable, listed, dispatch, calls, hooks >>
    /\ UNCHANGED << entry, began, padVars, steamVars >>

(***************************************************************************)
(* reload.                                                                 *)
(***************************************************************************)
\* this.plugins.find(x => x.id === id): the index of the first match, or 0.
Find(id) ==
    IF \E i \in 1..Len(plugins) : plugins[i].id = id
    THEN CHOOSE i \in 1..Len(plugins) :
             /\ plugins[i].id = id
             /\ \A j \in 1..(i - 1) : plugins[j].id # id
    ELSE 0

\* _clearRequireCache(p): nothing without a mainPath.  A record has a mainPath
\* only once require(mainPath) has returned, and the loader keeps the file name
\* a request resolved to, so require.resolve(p.mainPath) yields the key the
\* module is cached under, also when the file is gone since.
ClearRequireCache(cache, p) ==
    IF p.mainPath # NoPath
    THEN CacheDrop(cache, p.mainPath)
    ELSE cache

RECURSIVE ClearAll(_, _)
\* for (const p of this.plugins) this._clearRequireCache(p), from record i on.
ClearAll(cache, i) ==
    IF i > Len(plugins) THEN cache
    ELSE ClearAll(ClearRequireCache(cache, plugins[i]), i + 1)

ReloadInvalidate_All(cache, id) == ClearAll(cache, 1)

\* The cache reload leaves before it calls loadAll.
ReloadInvalidate(cache, id) ==
    IF id # ""
    THEN IF Find(id) # 0 THEN ClearRequireCache(cache, plugins[Find(id)]) ELSE cache
    ELSE ClearAll(cache, 1)

\* The host calls reload(id); id "" is a call without an id.
CallReload(id) ==
    /\ pc = "idle"
    /\ passNo < MaxPasses
    /\ requireCache' = ReloadInvalidate(requireCache, id)
    /\ pc' = "enter"
    /\ result' = "none"
    /\ call' = [ name |-> "reload", id |-> id ]
    /\ UNCHANGED << disk, ipcHandlers, plugins, rendererPreloads, rendererPages,
                    listeners, webRequestHandlers, contextMenuContribs, scanIdx, actIdx,
                    callIdx, ctxResult, inflight, held, passNo, envOps, setOps, callerOps,
                    produced, invoked, visited >>
    /\ UNCHANGED << readable, listed, dispatch, calls, hooks >>
    /\ UNCHANGED << entry, began, padVars, steamVars >>

(***************************************************************************)
(* setEnabled and its file write.                                          *)
(***************************************************************************)
\* What an opened (truncated) and not yet written plugin.json holds.
Truncated == NoManifest

SetEnabledStart_NoCheck(id, enabled) ==
    LET i == IF Find(id) # 0 THEN Find(id) ELSE 1
    IN  IF Len(plugins) = 0
        THEN [ result |-> "read-failed", write |-> << >> ]
        ELSE [ result |-> "pending",
               write  |-> << [ slot |-> SlotOf(plugins[i].dir),
                               content |-> [ plugins[i].manifest EXCEPT
                                   !.enabled = IF enabled THEN "true" ELSE "false" ],
                               stage |-> "pending", asked |-> enabled ] >> ]

SetEnabledStart_WritesRecord(id, enabled) ==
    LET i == Find(id)
    IN  IF i = 0
        THEN [ result |-> "not-found", write |-> << >> ]
        ELSE LET slot == SlotOf(plugins[i].dir)
             IN  IF disk[slot].kind # "dir" \/ ~ManifestParses(slot)
                 THEN [ result |-> "read-failed", write |-> << >> ]
                 ELSE [ result |-> "pending",
                        write  |-> << [ slot |-> slot,
                                        content |-> [ plugins[i].manifest EXCEPT
                                            !.enabled = IF enabled THEN "true" ELSE "false" ],
                                        stage |-> "pending", asked |-> enabled ] >> ]

SetEnabledStart_SwallowsReadFailure(id, enabled) ==
    LET i == Find(id)
    IN  IF i = 0
        THEN [ result |-> "not-found", write |-> << >> ]
        ELSE LET slot == SlotOf(plugins[i].dir)
             IN  IF disk[slot].kind # "dir" \/ ~ManifestParses(slot)
                 THEN [ result |-> "ok", write |-> << >> ]
                 ELSE [ result |-> "pending",
                        write  |-> << [ slot |-> slot,
                                        content |-> [ disk[slot].manifest EXCEPT
                                            !.enabled = IF enabled THEN "true" ELSE "false" ],
                                        stage |-> "pending", asked |-> enabled ] >> ]

\* setEnabled up to its await: find the record, read and parse its manifest,
\* set enabled, start the write.
SetEnabledStart(id, enabled) ==
    LET i == Find(id)
    IN  IF i = 0
        THEN [ result |-> "not-found", write |-> << >> ]
        ELSE LET slot == SlotOf(plugins[i].dir)
             IN  IF disk[slot].kind # "dir" \/ ~ManifestParses(slot)
                 THEN [ result |-> "read-failed", write |-> << >> ]
                 ELSE [ result |-> "pending",
                        write  |-> << [ slot |-> slot,
                                        content |-> [ disk[slot].manifest EXCEPT
                                            !.enabled = IF enabled THEN "true" ELSE "false" ],
                                        stage |-> "pending", asked |-> enabled ] >> ]

\* The management surface calls setEnabled(id, enabled).
CallSetEnabled(id, enabled) ==
    /\ pc = "idle"
    /\ setOps < MaxSetEnabled
    /\ LET r == SetEnabledStart(id, enabled)
       IN  /\ result' = r.result
           /\ inflight' = inflight \o r.write
    /\ setOps' = setOps + 1
    /\ UNCHANGED envOps
    /\ UNCHANGED << call, disk, requireCache, ipcHandlers, plugins, rendererPreloads,
                    rendererPages, listeners, webRequestHandlers, contextMenuContribs,
                    pc, scanIdx, actIdx, callIdx, ctxResult, held, passNo, callerOps,
                    produced, invoked, visited >>
    /\ UNCHANGED << readable, listed, dispatch, calls, hooks >>
    /\ UNCHANGED << entry, began, padVars, steamVars >>

\* The write runs outside the JavaScript thread, at any time. While loadAll
\* activates, nothing reads the disk: a step of the write taken then is the same
\* step taken when the activation pass ends, and is taken there.
DiskStepMatters == pc \in { "idle", "enter", "scan" }

\* fs.promises.writeFile opens the file for writing, which truncates it; the
\* open fails when the directory is gone.
WriteOpen(k) ==
    /\ DiskStepMatters
    /\ k \in 1..Len(inflight)
    /\ inflight[k].stage = "pending"
    /\ LET slot == inflight[k].slot
       IN  IF disk[slot].kind = "dir"
           THEN /\ disk' = [ disk EXCEPT ![slot].manifest = Truncated ]
                /\ inflight' = [ inflight EXCEPT ![k].stage = "open" ]
           ELSE /\ disk' = disk
                /\ inflight' = [ inflight EXCEPT ![k].stage = "failed" ]
    /\ UNCHANGED << call, requireCache, ipcHandlers, plugins, rendererPreloads, rendererPages,
                    listeners, webRequestHandlers, contextMenuContribs, pc, scanIdx,
                    actIdx, callIdx, ctxResult, result, held, passNo, envOps, setOps, callerOps,
                    produced, invoked, visited >>
    /\ UNCHANGED << readable, listed, dispatch, calls, hooks >>
    /\ UNCHANGED << entry, began, padVars, steamVars >>

\* The serialized manifest is written to the open file.
WriteData(k) ==
    /\ DiskStepMatters
    /\ k \in 1..Len(inflight)
    /\ inflight[k].stage = "open"
    /\ LET slot == inflight[k].slot
       IN  disk' = IF disk[slot].kind = "dir"
                   THEN [ disk EXCEPT ![slot].manifest = inflight[k].content ]
                   ELSE disk
    /\ inflight' = [ inflight EXCEPT ![k].stage = "written" ]
    /\ UNCHANGED << call, requireCache, ipcHandlers, plugins, rendererPreloads, rendererPages,
                    listeners, webRequestHandlers, contextMenuContribs, pc, scanIdx,
                    actIdx, callIdx, ctxResult, result, held, passNo, envOps, setOps, callerOps,
                    produced, invoked, visited >>
    /\ UNCHANGED << readable, listed, dispatch, calls, hooks >>
    /\ UNCHANGED << entry, began, padVars, steamVars >>

\* The await ends: setEnabled returns true, or rejects with the write's error.
SetEnabledSettle(k) ==
    /\ pc = "idle"
    /\ k \in 1..Len(inflight)
    /\ inflight[k].stage \in { "written", "failed" }
    /\ result' = IF inflight[k].stage = "written" THEN "ok" ELSE "write-failed"
    /\ inflight' = SubSeq(inflight, 1, k - 1) \o SubSeq(inflight, k + 1, Len(inflight))
    /\ UNCHANGED << call, disk, requireCache, ipcHandlers, plugins, rendererPreloads,
                    rendererPages, listeners, webRequestHandlers, contextMenuContribs,
                    pc, scanIdx, actIdx, callIdx, ctxResult, held, passNo, envOps, setOps,
                    callerOps, produced, invoked, visited >>
    /\ UNCHANGED << readable, listed, dispatch, calls, hooks >>
    /\ UNCHANGED << entry, began, padVars, steamVars >>

\* A plugin directory is removed from the disk.
RemoveDir(d) ==
    /\ pc = "idle"
    /\ envOps < MaxEnvOps
    /\ disk[d].kind = "dir"
    /\ disk' = [ disk EXCEPT ![d] = Absent ]
    /\ envOps' = envOps + 1
    /\ UNCHANGED << call, requireCache, ipcHandlers, plugins, rendererPreloads, rendererPages,
                    listeners, webRequestHandlers, contextMenuContribs, pc, scanIdx,
                    actIdx, callIdx, ctxResult, result, inflight, held, passNo, setOps, callerOps,
                    produced, invoked, visited >>
    /\ UNCHANGED << readable, listed, dispatch, calls, hooks >>
    /\ UNCHANGED << entry, began, padVars, steamVars >>

(***************************************************************************)
(* getRendererPages and a caller that mutates what it got.  A held element *)
(* is a value with ref, the index of the internal entry it is the same     *)
(* object as (0: an object of the caller's own); shared says that the held *)
(* array is the internal array itself.                                     *)
(***************************************************************************)
getRendererPages_SameArray ==
    [ valid  |-> TRUE,
      list   |-> [ i \in 1..Len(rendererPages) |-> [ val |-> rendererPages[i], ref |-> i ] ],
      shared |-> TRUE ]

\* this.rendererPages.map(p => ({ ...p })): a new array of new objects.
getRendererPages ==
    [ valid  |-> TRUE,
      list   |-> [ i \in 1..Len(rendererPages) |-> [ val |-> rendererPages[i], ref |-> 0 ] ],
      shared |-> FALSE ]

CallGetRendererPages ==
    /\ pc = "idle"
    /\ passNo > 0
    /\ held # getRendererPages
    /\ held' = getRendererPages
    /\ UNCHANGED << call, disk, requireCache, ipcHandlers, plugins, rendererPreloads,
                    rendererPages, listeners, webRequestHandlers, contextMenuContribs,
                    pc, scanIdx, actIdx, callIdx, ctxResult, result, inflight,
                    passNo, envOps, setOps, callerOps, produced, invoked, visited >>
    /\ UNCHANGED << readable, listed, dispatch, calls, hooks >>
    /\ UNCHANGED << entry, began, padVars, steamVars >>

Forged == PageEntry("forged", AbsHtml, NullUrl, "caller")

\* The caller pushes an entry of its own onto the array it holds.
CallerPush ==
    /\ pc = "idle"
    /\ held.valid
    /\ callerOps < MaxCallerOps
    /\ callerOps' = callerOps + 1
    /\ IF held.shared
       THEN /\ rendererPages' = Append(rendererPages, Forged)
            /\ held' = [ held EXCEPT !.list =
                             Append(@, [ val |-> Forged, ref |-> Len(rendererPages) + 1 ]) ]
       ELSE /\ held' = [ held EXCEPT !.list = Append(@, [ val |-> Forged, ref |-> 0 ]) ]
            /\ UNCHANGED rendererPages
    /\ UNCHANGED << call, disk, requireCache, ipcHandlers, plugins, rendererPreloads, listeners,
                    webRequestHandlers, contextMenuContribs, pc, scanIdx, actIdx,
                    callIdx, ctxResult, result, inflight, passNo, envOps, setOps, produced,
                    invoked, visited >>
    /\ UNCHANGED << readable, listed, dispatch, calls, hooks >>
    /\ UNCHANGED << entry, began, padVars, steamVars >>

\* The caller removes the last entry of the array it holds.
CallerPop ==
    /\ pc = "idle"
    /\ held.valid
    /\ Len(held.list) > 0
    /\ callerOps < MaxCallerOps
    /\ callerOps' = callerOps + 1
    /\ held' = [ held EXCEPT !.list = SubSeq(@, 1, Len(@) - 1) ]
    /\ rendererPages' = IF held.shared
                        THEN SubSeq(rendererPages, 1, Len(rendererPages) - 1)
                        ELSE rendererPages
    /\ UNCHANGED << call, disk, requireCache, ipcHandlers, plugins, rendererPreloads, listeners,
                    webRequestHandlers, contextMenuContribs, pc, scanIdx, actIdx,
                    callIdx, ctxResult, result, inflight, passNo, envOps, setOps, produced,
                    invoked, visited >>
    /\ UNCHANGED << readable, listed, dispatch, calls, hooks >>
    /\ UNCHANGED << entry, began, padVars, steamVars >>

\* The caller assigns a field of an entry it holds.
CallerEdit(i) ==
    /\ pc = "idle"
    /\ held.valid
    /\ i \in 1..Len(held.list)
    /\ callerOps < MaxCallerOps
    /\ callerOps' = callerOps + 1
    /\ held' = [ held EXCEPT !.list[i].val.id = "edited" ]
    /\ rendererPages' = IF held.list[i].ref # 0
                        THEN [ rendererPages EXCEPT ![held.list[i].ref].id = "edited" ]
                        ELSE rendererPages
    /\ UNCHANGED << call, disk, requireCache, ipcHandlers, plugins, rendererPreloads, listeners,
                    webRequestHandlers, contextMenuContribs, pc, scanIdx, actIdx,
                    callIdx, ctxResult, result, inflight, passNo, envOps, setOps, produced,
                    invoked, visited >>
    /\ UNCHANGED << readable, listed, dispatch, calls, hooks >>
    /\ UNCHANGED << entry, began, padVars, steamVars >>

(***************************************************************************)
(* getRendererPreloads.                                                    *)
(***************************************************************************)
RECURSIVE Dedup(_)
\* Array.from(new Set(seq)): the first occurrence of each value, in order.
Dedup(seq) ==
    IF seq = << >> THEN << >>
    ELSE LET front == Dedup(SubSeq(seq, 1, Len(seq) - 1))
             last  == seq[Len(seq)]
         IN  IF \E k \in 1..Len(front) : front[k] = last THEN front ELSE Append(front, last)

\* getRendererPreloads()
getRendererPreloads == Dedup(rendererPreloads)

\* The host calls getRendererPreloads().
CallGetRendererPreloads ==
    /\ pc = "idle"
    /\ listed' = [ by |-> "getRendererPreloads", list |-> getRendererPreloads ]
    /\ UNCHANGED << disk, requireCache, ipcHandlers, plugins, rendererPreloads,
                    rendererPages, listeners, webRequestHandlers, contextMenuContribs,
                    pc, call, scanIdx, actIdx, callIdx, ctxResult, result, inflight, held,
                    passNo, envOps, setOps, callerOps, produced, invoked, visited,
                    readable, dispatch, calls, hooks, entry, began,
                    padVars, steamVars >>

(***************************************************************************)
(* getPluginsInfo and discoverPlugins.                                     *)
(***************************************************************************)
Descriptor(id, name, categories, authors, enabled, hasMain, hasRendererPreload, dir) ==
    [ id |-> id, name |-> name, categories |-> categories, authors |-> authors,
      enabled |-> enabled,
      hasMain |-> hasMain, hasRendererPreload |-> hasRendererPreload, dir |-> dir ]

\* x => (typeof x === 'string' ? x : (x && x.name) || '')
InfoAuthorName(x) ==
    IF IsString(x) THEN x
    ELSE IF Truthy(x) /\ Truthy(NameOf(x)) THEN NameOf(x) ELSE Str("")

\* getPluginsInfo's authors: of an array the names that are truthy, else [].
InfoAuthors(au) ==
    IF au.t = "array"
    THEN SelectSeq([ k \in 1..Len(au.items) |-> InfoAuthorName(au.items[k]) ], Truthy)
    ELSE << >>

\* getPluginsInfo's categories: the array, else [].
InfoCategories(cats) == IF cats.t = "array" THEN cats.items ELSE << >>

\* p.manifest.name || p.id
InfoName(p) == IF p.manifest.name # "" THEN p.manifest.name ELSE p.id

\* manifest.name || ent.name
DiscoverName(manifest, ent) == IF manifest.name # "" THEN manifest.name ELSE ent

\* getPluginsInfo(): one descriptor per record.
getPluginsInfo ==
    [ i \in 1..Len(plugins) |->
        Descriptor(plugins[i].id, InfoName(plugins[i]),
                   InfoCategories(plugins[i].manifest.categories),
                   InfoAuthors(plugins[i].manifest.authors), plugins[i].enabled,
                   plugins[i].manifest.main # "", plugins[i].manifest.rendererPreload # "",
                   plugins[i].dir) ]

\* discoverPlugins' categories: [cats] of a string, the strings of an array,
\* else [].
DiscoverCategories(cats) ==
    CASE cats.t = "string" -> << Str(cats.s) >>
      [] cats.t = "array" -> SelectSeq(cats.items, IsString)
      [] OTHER -> << >>

\* x => (typeof x === 'string' ? x : (x && x.name) || null)
DiscoverAuthorName(x) ==
    IF IsString(x) THEN x
    ELSE IF Truthy(x) /\ Truthy(NameOf(x)) THEN NameOf(x) ELSE Null

\* discoverPlugins' authors: [au] of a string, of an array the names that are
\* truthy, else [].
DiscoverAuthors(au) ==
    CASE au.t = "string" -> << Str(au.s) >>
      [] au.t = "array" ->
             SelectSeq([ k \in 1..Len(au.items) |-> DiscoverAuthorName(au.items[k]) ], Truthy)
      [] OTHER -> << >>

discoverPlugins_SkipsDisabled ==
    LET found == SelectSeq(ScanList, LAMBDA d : /\ disk[d].kind = "dir"
                                                /\ ManifestParses(d)
                                                /\ IsEnabled(disk[d].manifest))
    IN  [ i \in 1..Len(found) |->
            LET manifest == disk[found[i]].manifest
            IN  Descriptor(RecordId(manifest, found[i]), DiscoverName(manifest, found[i]),
                           DiscoverCategories(manifest.categories),
                           DiscoverAuthors(manifest.authors), IsEnabled(manifest),
                           manifest.main # "", manifest.rendererPreload # "",
                           DirPath(found[i])) ]

\* discoverPlugins(): one descriptor per directory of a root that can be listed
\* whose plugin.json parses; nothing is loaded.
discoverPlugins ==
    LET found == SelectSeq(ScanList, LAMBDA d : disk[d].kind = "dir" /\ ManifestParses(d))
    IN  [ i \in 1..Len(found) |->
            LET manifest == disk[found[i]].manifest
            IN  Descriptor(RecordId(manifest, found[i]), DiscoverName(manifest, found[i]),
                           DiscoverCategories(manifest.categories),
                           DiscoverAuthors(manifest.authors), IsEnabled(manifest),
                           manifest.main # "", manifest.rendererPreload # "",
                           DirPath(found[i])) ]

\* The management surface calls discoverPlugins().
CallDiscoverPlugins ==
    /\ pc = "idle"
    /\ listed' = [ by |-> "discoverPlugins", list |-> discoverPlugins ]
    /\ UNCHANGED << disk, requireCache, ipcHandlers, plugins, rendererPreloads,
                    rendererPages, listeners, webRequestHandlers, contextMenuContribs,
                    pc, call, scanIdx, actIdx, callIdx, ctxResult, result, inflight, held,
                    passNo, envOps, setOps, callerOps, produced, invoked, visited,
                    readable, dispatch, calls, hooks >>
    /\ UNCHANGED << entry, began, padVars, steamVars >>

\* The management surface calls getPluginsInfo().
CallGetPluginsInfo ==
    /\ pc = "idle"
    /\ listed' = [ by |-> "getPluginsInfo", list |-> getPluginsInfo ]
    /\ UNCHANGED << disk, requireCache, ipcHandlers, plugins, rendererPreloads,
                    rendererPages, listeners, webRequestHandlers, contextMenuContribs,
                    pc, call, scanIdx, actIdx, callIdx, ctxResult, result, inflight, held,
                    passNo, envOps, setOps, callerOps, produced, invoked, visited,
                    readable, dispatch, calls, hooks >>
    /\ UNCHANGED << entry, began, padVars, steamVars >>

(***************************************************************************)
(* emit, applyContextMenuContrib and the web-request hooks.  What a        *)
(* function of a plugin does when it is called is chosen at each call.     *)
(***************************************************************************)
Invocation(cb, args, outcome) == [ cb |-> cb, args |-> args, outcome |-> outcome ]

Outcomes == { "returns", "throws" }

ArgValues == { "x", "y" }

EmitNames == { "app-ready", "custom", "nobody", "constructor" }

\* this._listeners[evt] || [], where the member found is an array or nothing.
EmitList(ls, evt) == IF evt \in DOMAIN ls THEN ls[evt] ELSE << >>

\* The host calls emit(evt, args).  A member inherited from Object.prototype is
\* truthy and not iterable: the for-of throws a TypeError out of emit.
CallEmit(evt, args) ==
    /\ pc = "idle"
    /\ calls' = << >>
    /\ IF ListenersLookup(listeners, evt) = "inherited"
       THEN /\ result' = "emit-threw"
            /\ dispatch' = NoDispatch
            /\ UNCHANGED pc
       ELSE /\ result' = "none"
            /\ dispatch' = [ op |-> "emit", name |-> evt, idx |-> 1, args |-> args,
                             atStart |-> Len(EmitList(listeners, evt)) ]
            /\ pc' = "emit"
    /\ UNCHANGED << disk, requireCache, ipcHandlers, plugins, rendererPreloads,
                    rendererPages, listeners, webRequestHandlers, contextMenuContribs,
                    call, scanIdx, actIdx, callIdx, ctxResult, inflight, held,
                    passNo, envOps, setOps, callerOps, produced, invoked, visited,
                    readable, listed, hooks >>
    /\ UNCHANGED << entry, began, padVars, steamVars >>

\* try { cb(...args) } catch: the next subscriber.
EmitAfter(outcome) ==
    /\ dispatch' = [ dispatch EXCEPT !.idx = @ + 1 ]
    /\ UNCHANGED << pc, result >>

\* What a subscriber does when it is called: it returns, throws, or subscribes
\* a function to the event that is being emitted (ctx.on) and returns.
SubscriberOutcomes == Outcomes \cup { "subscribes" }

\* The functions subscribed from within a subscriber.
Late(list) == { k \in 1..Len(list) : list[k].plugin = "late" }

\* One iteration of emit's loop, which iterates the array on() pushes onto.
EmitStep ==
    /\ pc = "emit"
    /\ dispatch.idx <= Len(EmitList(listeners, dispatch.name))
    /\ \E outcome \in SubscriberOutcomes :
           /\ outcome = "subscribes" =>
                  Cardinality(Late(EmitList(listeners, dispatch.name))) < MaxLate
           /\ calls' = Append(calls, Invocation(EmitList(listeners, dispatch.name)[dispatch.idx],
                                                dispatch.args, outcome))
           /\ listeners' =
                  IF outcome = "subscribes"
                  THEN ManagerOn(listeners, dispatch.name,
                           Callback("late", Cardinality(Late(EmitList(listeners, dispatch.name)))
                                                + 1)).listeners
                  ELSE listeners
           /\ EmitAfter(outcome)
    /\ UNCHANGED << disk, requireCache, ipcHandlers, plugins, rendererPreloads,
                    rendererPages, webRequestHandlers, contextMenuContribs,
                    call, scanIdx, actIdx, callIdx, ctxResult, inflight, held,
                    passNo, envOps, setOps, callerOps, produced, invoked, visited,
                    readable, listed, hooks >>
    /\ UNCHANGED << entry, began, padVars, steamVars >>

\* emit returns.
EmitReturn ==
    /\ pc = "emit"
    /\ dispatch.idx > Len(EmitList(listeners, dispatch.name))
    /\ pc' = "idle"
    /\ result' = "returned"
    /\ UNCHANGED << disk, requireCache, ipcHandlers, plugins, rendererPreloads,
                    rendererPages, listeners, webRequestHandlers, contextMenuContribs,
                    call, scanIdx, actIdx, callIdx, ctxResult, inflight, held,
                    passNo, envOps, setOps, callerOps, produced, invoked, visited,
                    readable, listed, dispatch, calls, hooks >>
    /\ UNCHANGED << entry, began, padVars, steamVars >>

\* The host calls applyContextMenuContrib(template, params, sender).
CallApplyContextMenuContrib(args) ==
    /\ pc = "idle"
    /\ calls' = << >>
    /\ result' = "none"
    /\ dispatch' = [ op |-> "menu", name |-> "", idx |-> 1, args |-> args,
                     atStart |-> Len(contextMenuContribs) ]
    /\ pc' = "menu"
    /\ UNCHANGED << disk, requireCache, ipcHandlers, plugins, rendererPreloads,
                    rendererPages, listeners, webRequestHandlers, contextMenuContribs,
                    call, scanIdx, actIdx, callIdx, ctxResult, inflight, held,
                    passNo, envOps, setOps, callerOps, produced, invoked, visited,
                    readable, listed, hooks >>
    /\ UNCHANGED << entry, began, padVars, steamVars >>

MenuAfter_NoCatch(outcome) ==
    IF outcome = "throws"
    THEN /\ dispatch' = [ dispatch EXCEPT !.idx = Len(contextMenuContribs) + 1 ]
         /\ UNCHANGED << pc, result >>
    ELSE /\ dispatch' = [ dispatch EXCEPT !.idx = @ + 1 ]
         /\ UNCHANGED << pc, result >>

\* try { fn(template, params, sender) } catch: the next contributor.
MenuAfter(outcome) ==
    /\ dispatch' = [ dispatch EXCEPT !.idx = @ + 1 ]
    /\ UNCHANGED << pc, result >>

\* One iteration of applyContextMenuContrib's loop.
MenuStep ==
    /\ pc = "menu"
    /\ dispatch.idx <= Len(contextMenuContribs)
    /\ \E outcome \in Outcomes :
           /\ calls' = Append(calls, Invocation(contextMenuContribs[dispatch.idx],
                                                dispatch.args, outcome))
           /\ MenuAfter(outcome)
    /\ UNCHANGED << disk, requireCache, ipcHandlers, plugins, rendererPreloads,
                    rendererPages, listeners, webRequestHandlers, contextMenuContribs,
                    call, scanIdx, actIdx, callIdx, ctxResult, inflight, held,
                    passNo, envOps, setOps, callerOps, produced, invoked, visited,
                    readable, listed, hooks >>
    /\ UNCHANGED << entry, began, padVars, steamVars >>

\* applyContextMenuContrib returns.
MenuReturn ==
    /\ pc = "menu"
    /\ dispatch.idx > Len(contextMenuContribs)
    /\ pc' = "idle"
    /\ result' = "returned"
    /\ UNCHANGED << disk, requireCache, ipcHandlers, plugins, rendererPreloads,
                    rendererPages, listeners, webRequestHandlers, contextMenuContribs,
                    call, scanIdx, actIdx, callIdx, ctxResult, inflight, held,
                    passNo, envOps, setOps, callerOps, produced, invoked, visited,
                    readable, listed, dispatch, calls, hooks >>
    /\ UNCHANGED << entry, began, padVars, steamVars >>

Sessions == { "none", "bare", "session" }

\* filter || {}
HookFilter(filter) == IF filter = "undefined" THEN "{}" ELSE filter

\* The calls of ses.webRequest.onBeforeRequest, one per stored entry; failing
\* are the entries whose call throws.
AttachCalls(handlers, failing) ==
    [ k \in 1..Len(handlers) |->
        Invocation(handlers[k].listener, HookFilter(handlers[k].filter),
                   IF k \in failing THEN "throws" ELSE "returns") ]

Attached_StopsAtFailure(handlers, failing) ==
    SelectSeq([ k \in 1..Len(handlers) |->
                  [ filter |-> HookFilter(handlers[k].filter),
                    listener |-> handlers[k].listener, entry |-> k ] ],
              LAMBDA h : \A k \in failing : h.entry < k)

\* The hooks the loop attaches: the try inside the loop catches the failure
\* of one call, and the loop goes on.
Attached(handlers, failing) ==
    SelectSeq([ k \in 1..Len(handlers) |->
                  [ filter |-> HookFilter(handlers[k].filter),
                    listener |-> handlers[k].listener, entry |-> k ] ],
              LAMBDA h : h.entry \notin failing)

\* The host calls applyWebRequestHandlers(ses): nothing without a session that
\* has webRequest; else onBeforeRequest is called once per stored entry.
ApplyWebRequestHandlers(ses) ==
    /\ pc = "idle"
    /\ Len(hooks) + Len(webRequestHandlers) <= MaxHooks
    /\ result' = "returned"
    /\ dispatch' = [ op |-> "attach", name |-> ses, idx |-> 0, args |-> "",
                     atStart |-> Len(webRequestHandlers) ]
    /\ IF ses # "session"
       THEN /\ hooks' = hooks
            /\ calls' = << >>
       ELSE \E failing \in SUBSET (1..Len(webRequestHandlers)) :
                /\ hooks' = hooks \o Attached(webRequestHandlers, failing)
                /\ calls' = AttachCalls(webRequestHandlers, failing)
    /\ UNCHANGED << disk, requireCache, ipcHandlers, plugins, rendererPreloads,
                    rendererPages, listeners, webRequestHandlers, contextMenuContribs,
                    pc, call, scanIdx, actIdx, callIdx, ctxResult, inflight, held,
                    passNo, envOps, setOps, callerOps, produced, invoked, visited,
                    readable, listed >>
    /\ UNCHANGED << entry, began, padVars, steamVars >>

\* What a listener does with a request: it throws, or returns a value whose
\* typeof is as named (null: typeof 'object', and falsy).
ListenerOutcomes ==
    { "object", "null", "undefined", "boolean", "number", "string", "function", "throws" }

\* The request's callback.
RequestCallback == [ plugin |-> "session", n |-> 0 ]

HookRun_NoCatch(outcome) ==
    CASE outcome = "object" -> << Invocation(RequestCallback, "res", "returns") >>
      [] outcome = "throws" -> << >>
      [] OTHER -> << Invocation(RequestCallback, "cancel:false", "returns") >>

\* The hook: callback(res) for a result that is truthy and of type object,
\* callback({ cancel: false }) for another result and in the catch.
HookRun(outcome) ==
    IF outcome = "object"
    THEN << Invocation(RequestCallback, "res", "returns") >>
    ELSE << Invocation(RequestCallback, "cancel:false", "returns") >>

\* The session intercepts a request and calls hook k.
InterceptRequest(k, outcome) ==
    /\ pc = "idle"
    /\ k \in 1..Len(hooks)
    /\ dispatch' = [ op |-> "request", name |-> outcome, idx |-> k, args |-> "details",
                     atStart |-> 0 ]
    /\ calls' = HookRun(outcome)
    /\ UNCHANGED << disk, requireCache, ipcHandlers, plugins, rendererPreloads,
                    rendererPages, listeners, webRequestHandlers, contextMenuContribs,
                    pc, call, scanIdx, actIdx, callIdx, ctxResult, result, inflight, held,
                    passNo, envOps, setOps, callerOps, produced, invoked, visited,
                    readable, listed, hooks >>
    /\ UNCHANGED << entry, began, padVars, steamVars >>

(***************************************************************************)
(* The specification.                                                      *)
(***************************************************************************)
\* The steps of a loadAll pass.
LoadAllStep ==
    \/ LoadAllEnter
    \/ ScanCandidate
    \/ ScanDone
    \/ ActivateRecord
    \/ ActivateReturn
    \/ PluginThrows
    \/ PluginOn
    \/ PluginRegisterIPC
    \/ PluginRegisterWebRequest
    \/ PluginContributeContextMenu
    \/ PluginRegisterRendererPage
    \/ LoadAllReturn

\* The host loads and reloads, plugin directories disappear, and a caller of
\* getRendererPages mutates what it got.
Next ==
    \/ CallLoadAll
    \/ \E id \in IdArgs \cup { "" } : CallReload(id)
    \/ LoadAllStep
    \/ \E d \in Dirs : RemoveDir(d)
    \/ CallGetRendererPages
    \/ CallerPush
    \/ CallerPop
    \/ \E i \in 1..Len(held.list) : CallerEdit(i)

Spec == Init /\ [][Next]_vars

\* The disks the management surface is exercised on.
EnableSlots(d) ==
    CASE d = "a1" -> { Package("p", "absent", "good", "preload.js", TRUE),
                       Package("", "true", "thrower", "", FALSE) }
      [] d = "a2" -> { Absent,
                       Package("q", "false", "good", "preload.js", TRUE) }
      [] OTHER    -> { Absent,
                       Package("p", "true", "pager", "", FALSE) }

InitEnable ==
    /\ disk \in [ Dirs -> UNION { EnableSlots(d) : d \in Dirs } ]
    /\ \A d \in Dirs : disk[d] \in EnableSlots(d)
    /\ readable = DOMAIN getPluginDirs
    /\ Constructed

\* The same host with the management surface toggling plugins.
NextEnable ==
    \/ CallLoadAll
    \/ \E id \in IdArgs \cup { "" } : CallReload(id)
    \/ LoadAllStep
    \/ \E d \in Dirs : RemoveDir(d)
    \/ \E id \in IdArgs, enabled \in BOOLEAN : CallSetEnabled(id, enabled)
    \/ \E k \in 1..MaxSetEnabled : WriteOpen(k)
    \/ \E k \in 1..MaxSetEnabled : WriteData(k)
    \/ \E k \in 1..MaxSetEnabled : SetEnabledSettle(k)

SpecEnable == InitEnable /\ [][NextEnable]_vars

\* The management surface lists the plugins and toggles them while the host
\* loads.
NextToggle ==
    \/ CallLoadAll
    \/ LoadAllStep
    \/ CallDiscoverPlugins
    \/ \E id \in IdArgs, enabled \in BOOLEAN : CallSetEnabled(id, enabled)
    \/ \E k \in 1..MaxSetEnabled : WriteOpen(k)
    \/ \E k \in 1..MaxSetEnabled : WriteData(k)
    \/ \E k \in 1..MaxSetEnabled : SetEnabledSettle(k)

SpecToggle == InitEnable /\ [][NextToggle]_vars

\* The disks the dispatch operations are exercised on.
DispatchSlots(d) ==
    CASE d = "a1" -> { Package("p", "absent", "good", "preload.js", TRUE),
                       Package("", "true", "thrower", "", FALSE) }
      [] d = "a2" -> { Absent,
                       Package("q", "absent", "fn", "", FALSE) }
      [] OTHER    -> { Absent,
                       Package("p", "true", "pager", "", FALSE),
                       Package("r", "absent", "good", "", FALSE) }

InitDispatch ==
    /\ disk \in [ Dirs -> UNION { DispatchSlots(d) : d \in Dirs } ]
    /\ \A d \in Dirs : disk[d] \in DispatchSlots(d)
    /\ readable = DOMAIN getPluginDirs
    /\ Constructed

\* The host loads the plugins, builds context menus and attaches the
\* web-request hooks, and the session intercepts requests.
NextDispatch ==
    \/ CallLoadAll
    \/ LoadAllStep
    \/ \E args \in ArgValues : CallApplyContextMenuContrib(args)
    \/ MenuStep
    \/ MenuReturn
    \/ \E ses \in Sessions : ApplyWebRequestHandlers(ses)
    \/ \E k \in 1..MaxHooks, outcome \in ListenerOutcomes : InterceptRequest(k, outcome)

SpecDispatch == InitDispatch /\ [][NextDispatch]_vars

\* The host loads the plugins and emits events.
NextEmit ==
    \/ CallLoadAll
    \/ LoadAllStep
    \/ \E evt \in EmitNames, args \in ArgValues : CallEmit(evt, args)
    \/ EmitStep
    \/ EmitReturn

SpecEmit == InitDispatch /\ [][NextEmit]_vars

\* The disks the scan and the activation pass are exercised on.
ActivateSlots(d) ==
    CASE d = "a1" -> { Package("p", "absent", "both", Shared, TRUE),
                       Package("q", "false", "good", "preload.js", TRUE),
                       Package("", "absent", "broken", Shared, TRUE) }
      [] d = "a2" -> { Absent,
                       Package("q", "absent", "fn", Shared, TRUE),
                       Package("r", "absent", "good", NumberValue, FALSE),
                       Package("", "true", "falsy", "preload.js", TRUE) }
      [] OTHER    -> { Absent,
                       Package("p", "absent", "good", "preload.js", TRUE),
                       Package("", "true", "thrower", "preload.js", FALSE),
                       PreloadOnly }

InitActivate ==
    /\ disk \in [ Dirs -> UNION { ActivateSlots(d) : d \in Dirs } ]
    /\ \A d \in Dirs : disk[d] \in ActivateSlots(d)
    /\ readable = DOMAIN getPluginDirs
    /\ Constructed

\* The host loads and reloads, and asks for the preloads.
NextActivate ==
    \/ CallLoadAll
    \/ \E id \in IdArgs \cup { "" } : CallReload(id)
    \/ LoadAllStep
    \/ CallGetRendererPreloads

SpecActivate == InitActivate /\ [][NextActivate]_vars

\* The disks discovery is exercised on.
DiscoverSlots(d) ==
    CASE d = "a1" -> { Package("p", "absent", "good", "preload.js", TRUE),
                       Package("", "false", "thrower", "", FALSE),
                       Malformed }
      [] d = "a2" -> { Absent,
                       FileEntry,
                       Malformed,
                       Package("q", "false", "good", "preload.js", TRUE) }
      [] OTHER    -> { Absent,
                       Malformed,
                       Package("", "true", "thrower", "", FALSE),
                       Package("p", "true", "pager", "", FALSE) }

InitDiscover ==
    /\ disk \in [ Dirs -> UNION { DiscoverSlots(d) : d \in Dirs } ]
    /\ \A d \in Dirs : disk[d] \in DiscoverSlots(d)
    /\ readable \in SUBSET DOMAIN getPluginDirs
    /\ Constructed

\* The host loads and reloads while the management surface lists the plugins.
NextDiscover ==
    \/ CallLoadAll
    \/ \E id \in IdArgs \cup { "" } : CallReload(id)
    \/ LoadAllStep
    \/ \E d \in Dirs : RemoveDir(d)
    \/ CallDiscoverPlugins
    \/ CallGetPluginsInfo

SpecDiscover == InitDiscover /\ [][NextDiscover]_vars

\* The manifests normalization is exercised on: one plugin whose categories
\* and authors are any field value with arrays of up to MaxItems elements.
SeqsUpTo(S, n) == UNION { [ 1..k -> S ] : k \in 0..n }

AuthorItems ==
    { Str("ann"), Str(""), Named("bob"), Named(""), NumNamed("5"), Unnamed, Num("7"), Null }

CategoryItems == { Str("x"), Str(""), Num("7") }

AuthorValues ==
    { AbsentField, NullField, StringField("ann"), StringField(""), NumberField("7") }
        \cup { ArrayField(q) : q \in SeqsUpTo(AuthorItems, MaxItems) }

CategoryValues ==
    { AbsentField, NullField, StringField("x"), StringField(""), NumberField("7") }
        \cup { ArrayField(q) : q \in SeqsUpTo(CategoryItems, MaxItems) }

Described(slot, categories, authors) ==
    [ slot EXCEPT !.manifest.categories = categories, !.manifest.authors = authors ]

InitNormalize ==
    /\ disk \in { [ d \in Dirs |->
                      IF d = "a1"
                      THEN Described(Package("p", "absent", "inert", "", FALSE), c, a)
                      ELSE Absent ] : c \in CategoryValues, a \in AuthorValues }
    /\ readable = DOMAIN getPluginDirs
    /\ Constructed

\* The host loads the plugin and the management surface lists it.
NextNormalize ==
    \/ CallLoadAll
    \/ LoadAllEnter
    \/ ScanCandidate
    \/ ScanDone
    \/ ActivateRecord
    \/ LoadAllReturn
    \/ CallDiscoverPlugins
    \/ CallGetPluginsInfo

SpecNormalize == InitNormalize /\ [][NextNormalize]_vars

(***************************************************************************)
(* The gamepad handler: emitEvent and on, the window event handlers, the   *)
(* scan and the polling loop.  A step threads a run [st, out]: the state   *)
(* object and the events emitted so far.                                   *)
(***************************************************************************)
\* state.listeners[type].splice(indexOf(callback), 1)
RECURSIVE SpliceFirst(_, _)
SpliceFirst(list, cb) ==
    IF list = << >> THEN << >>
    ELSE IF Head(list) = cb THEN Tail(list)
    ELSE << Head(list) >> \o SpliceFirst(Tail(list), cb)

\* for (const listener of listeners): the iterator reads the live array at
\* index i; a listener that throws is caught, one that unsubscribes splices
\* the array being iterated.
RECURSIVE PadEmitFrom(_, _, _)
PadEmitFrom(list, i, done) ==
    IF i > Len(list) THEN [ list |-> list, invoked |-> done ]
    ELSE PadEmitFrom(IF list[i].does = "unsubscribes" THEN SpliceFirst(list, list[i])
                     ELSE list,
                     i + 1, Append(done, list[i]))

\* One emitted event: its type and data, the listeners of the type when it was
\* emitted and the listeners that were invoked for it.
Emission(type, index, button, pressed, atStart, ran) ==
    [ type |-> type, index |-> index, button |-> button, pressed |-> pressed,
      atStart |-> atStart, invoked |-> ran ]

emitEvent(run, type, index, button, pressed) ==
    LET r == PadEmitFrom(run.st.listeners[type], 1, << >>)
    IN  [ st |-> [ run.st EXCEPT !.listeners[type] = r.list ],
          out |-> Append(run.out, Emission(type, index, button, pressed,
                                           run.st.listeners[type], r.invoked)) ]

\* on(type, callback)
PadOn(st, type, cb) == [ st EXCEPT !.listeners[type] = Append(@, cb) ]

handleGamepadConnected(st, i) ==
    emitEvent([ st |-> [ st EXCEPT !.gamepads = @ \cup { i },
                                   !.connectedCount = @ + 1,
                                   !.activeGamepadIndex = IF @ = NoIndex THEN i ELSE @,
                                   !.buttonStates[i] = EmptyButtonState ],
                out |-> << >> ],
              "connect", i, NoIndex, FALSE)

\* The first index of navigator.getGamepads() that holds a gamepad, else null.
FirstPresent(nav) ==
    IF \E i \in PadIdx : nav[i].present
    THEN CHOOSE i \in PadIdx : nav[i].present /\ \A j \in PadIdx : nav[j].present => i <= j
    ELSE NoIndex

handleGamepadDisconnected(st, nav, i) ==
    LET s1 == IF i \in st.gamepads
              THEN [ st EXCEPT !.gamepads = @ \ { i }, !.connectedCount = @ - 1 ]
              ELSE st
        s2 == [ s1 EXCEPT !.buttonStates[i] = NoButtonState ]
        s3 == IF s2.activeGamepadIndex = i
              THEN [ s2 EXCEPT !.activeGamepadIndex = FirstPresent(nav) ]
              ELSE s2
    IN  emitEvent([ st |-> s3, out |-> << >> ], "disconnect", i, NoIndex, FALSE)

\* The loop of scanGamepads from index i on.
RECURSIVE ScanFrom(_, _, _)
ScanFrom(st, nav, i) ==
    IF i > MaxPads - 1 THEN st
    ELSE ScanFrom(IF nav[i].present /\ i \notin st.gamepads
                  THEN [ st EXCEPT !.gamepads = @ \cup { i },
                                   !.connectedCount = @ + 1,
                                   !.activeGamepadIndex = IF @ = NoIndex THEN i ELSE @,
                                   !.buttonStates[i] = EmptyButtonState ]
                  ELSE st,
                  nav, i + 1)

scanGamepads(st, nav) == ScanFrom(st, nav, 0)

\* The loop over gamepad.buttons from button k on; b is the local buttonState.
RECURSIVE ButtonsFrom(_, _, _, _, _, _)
ButtonsFrom(run, i, pad, k, b, hasInput) ==
    IF k > MaxButtons - 1 THEN [ run |-> run, b |-> b, hasInput |-> hasInput ]
    ELSE IF pad.pressed[k] # b[k]
         THEN ButtonsFrom(emitEvent(run, "button", i, k, pad.pressed[k]), i, pad, k + 1,
                          [ b EXCEPT ![k] = pad.pressed[k] ], TRUE)
         ELSE ButtonsFrom(run, i, pad, k + 1, b, hasInput)

\* processGamepadInput(gamepad) for a gamepad without axes.
processGamepadInput(run, i, pad) ==
    LET r == ButtonsFrom(run, i, pad, 0, run.st.buttonStates[i].b, FALSE)
        stored == [ st |-> [ r.run.st EXCEPT !.buttonStates[i] = [ held |-> TRUE, b |-> r.b ] ],
                    out |-> r.run.out ]
    IN  IF r.hasInput THEN emitEvent(stored, "input", i, NoIndex, FALSE) ELSE stored

\* The loop of pollLoop over navigator.getGamepads() from index i on.
RECURSIVE PollFrom(_, _, _)
PollFrom(run, nav, i) ==
    IF i > MaxPads - 1 THEN run
    ELSE PollFrom(IF nav[i].present THEN processGamepadInput(run, i, nav[i]) ELSE run,
                  nav, i + 1)

\* pollLoop(timestamp); scan says whether timestamp % 1000 < 20.
pollLoop(st, nav, scan) ==
    LET run == PollFrom([ st |-> st, out |-> << >> ], nav, 0)
    IN  IF scan THEN [ st |-> scanGamepads(run.st, nav), out |-> run.out ] ELSE run

isGamepadConnected == state.connectedCount > 0

\* The last 'button' event per pad and button once the events of out are
\* emitted.
ReportedAfter(rep, out) ==
    [ i \in PadIdx |-> [ b \in Buttons |->
        IF \E k \in 1..Len(out) : out[k].type = "button" /\ out[k].index = i /\ out[k].button = b
        THEN LET k == CHOOSE k \in 1..Len(out) :
                          /\ out[k].type = "button" /\ out[k].index = i /\ out[k].button = b
                          /\ \A m \in 1..Len(out) :
                                 (out[m].type = "button" /\ out[m].index = i /\ out[m].button = b)
                                     => m <= k
             IN  IF out[k].pressed THEN "pressed" ELSE "released"
        ELSE rep[i][b] ] ]

\* init(): the window listeners are attached, the pads already there are
\* scanned and the polling loop is started.
GamepadInit ==
    /\ ~state.initialized
    /\ state' = [ scanGamepads(state, navPads) EXCEPT !.rafId = TRUE, !.initialized = TRUE ]
    /\ dispatched' = << >>
    /\ UNCHANGED << navPads, winEvents, reported, padOps >>
    /\ UNCHANGED << managerVars, steamVars >>

\* The window events the browser queues once the handlers are attached.
Queued(type, i) ==
    IF state.initialized THEN Append(winEvents, [ type |-> type, index |-> i ]) ELSE winEvents

\* A gamepad becomes visible to the page.
Plug(i) ==
    /\ padOps < MaxPadOps
    /\ ~navPads[i].present
    /\ navPads' = [ navPads EXCEPT ![i].present = TRUE ]
    /\ winEvents' = Queued("gamepadconnected", i)
    /\ padOps' = padOps + 1
    /\ UNCHANGED << state, dispatched, reported >>
    /\ UNCHANGED << managerVars, steamVars >>

\* A gamepad is taken away.
Unplug(i) ==
    /\ padOps < MaxPadOps
    /\ navPads[i].present
    /\ navPads' = [ navPads EXCEPT ![i] = NoPad ]
    /\ winEvents' = Queued("gamepaddisconnected", i)
    /\ padOps' = padOps + 1
    /\ UNCHANGED << state, dispatched, reported >>
    /\ UNCHANGED << managerVars, steamVars >>

\* The user presses or releases a button.
SetButton(i, b, pressed) ==
    /\ padOps < MaxPadOps
    /\ navPads[i].present
    /\ navPads[i].pressed[b] # pressed
    /\ navPads' = [ navPads EXCEPT ![i].pressed[b] = pressed ]
    /\ padOps' = padOps + 1
    /\ UNCHANGED << winEvents, state, dispatched, reported >>
    /\ UNCHANGED << managerVars, steamVars >>

\* The browser dispatches the next queued window event to its handler.
DispatchWinEvent ==
    /\ winEvents # << >>
    /\ LET ev == Head(winEvents)
           run == IF ev.type = "gamepadconnected"
                  THEN handleGamepadConnected(state, ev.index)
                  ELSE handleGamepadDisconnected(state, navPads, ev.index)
       IN  /\ state' = run.st
           /\ dispatched' = run.out
    /\ winEvents' = Tail(winEvents)
    /\ UNCHANGED << navPads, reported, padOps >>
    /\ UNCHANGED << managerVars, steamVars >>

\* An animation frame runs pollLoop.
PollFrame(scan) ==
    /\ state.rafId
    /\ LET run == pollLoop(state, navPads, scan)
       IN  /\ state' = run.st
           /\ dispatched' = run.out
           /\ reported' = ReportedAfter(reported, run.out)
    /\ UNCHANGED << navPads, winEvents, padOps >>
    /\ UNCHANGED << managerVars, steamVars >>

\* The page registers a listener.
GamepadOn(type, cb) ==
    /\ Len(state.listeners[type]) < MaxPadListeners
    /\ state' = PadOn(state, type, cb)
    /\ dispatched' = << >>
    /\ UNCHANGED << navPads, winEvents, reported, padOps >>
    /\ UNCHANGED << managerVars, steamVars >>

\* The page calls the function on() returned for a listener.
GamepadUnsubscribe(type, cb) ==
    /\ \E k \in 1..Len(state.listeners[type]) : state.listeners[type][k] = cb
    /\ state' = [ state EXCEPT !.listeners[type] = SpliceFirst(@, cb) ]
    /\ dispatched' = << >>
    /\ UNCHANGED << navPads, winEvents, reported, padOps >>
    /\ UNCHANGED << managerVars, steamVars >>

\* The event types the page listens to here.
ListenedTypes == { "connect", "button" }

InitPad ==
    /\ disk = [ d \in Dirs |-> Absent ]
    /\ readable = DOMAIN getPluginDirs
    /\ Constructed

NextPad ==
    \/ GamepadInit
    \/ \E i \in PadIdx : Plug(i)
    \/ \E i \in PadIdx : Unplug(i)
    \/ \E i \in PadIdx, b \in Buttons, pressed \in BOOLEAN : SetButton(i, b, pressed)
    \/ DispatchWinEvent
    \/ \E scan \in BOOLEAN : PollFrame(scan)
    \/ \E type \in ListenedTypes, cb \in PadCallbacks : GamepadOn(type, cb)
    \/ \E type \in ListenedTypes, cb \in PadCallbacks : GamepadUnsubscribe(type, cb)

SpecPad == InitPad /\ [][NextPad]_vars

(***************************************************************************)
(* SteamInputManager: tick, subscribe, unsubscribe and dispose.            *)
(***************************************************************************)
\* What Steamworks can be at start.
SteamEnvs ==
    { SteamEnv(boot, FALSE, FALSE, FALSE, FALSE, FALSE) :
          boot \in { "module-missing", "handles-error" } }
        \cup { SteamEnv("ok", TRUE, TRUE, FALSE, TRUE, TRUE),
               SteamEnv("ok", TRUE, FALSE, TRUE, TRUE, TRUE),
               SteamEnv("ok", TRUE, FALSE, FALSE, TRUE, TRUE),
               SteamEnv("ok", FALSE, TRUE, TRUE, TRUE, TRUE),
               SteamEnv("ok", TRUE, TRUE, TRUE, TRUE, FALSE) }

TickEnvs ==
    { TickEnv("throws", FALSE, "none", "none"), TickEnv("ok", FALSE, "none", "none") }
        \cup { TickEnv("ok", TRUE, a, b) : a \in { "ok", "throws" }, b \in { "ok", "throws" } }

\* activateActionSet(controller)
activateActionSet(sim, env) ==
    IF ~sim.actionSet THEN sim
    ELSE IF env.activate = "throws"
         THEN [ sim EXCEPT !.handlesReady = FALSE, !.handlesReason = "activate-failed" ]
         ELSE sim

\* The payload tick builds, and the instance after the try around it.
TickPayload(sim, env) ==
    LET first == [ connected |-> FALSE, reason |-> sim.handlesReason ]
    IN  IF env.query = "ok" /\ env.controller /\ sim.handlesReady
        THEN [ sim |-> activateActionSet(sim, env),
               payload |-> IF env.build = "ok" THEN [ connected |-> TRUE, reason |-> "ok" ]
                           ELSE first ]
        ELSE [ sim |-> sim, payload |-> first ]

\* this.subscribers.has(id)
IsSubscriber(subs, w) == \E k \in 1..Len(subs) : subs[k] = w

\* this.subscribers.delete(id)
Unsubscribed(subs, id) == SelectSeq(subs, LAMBDA w : w # id)

\* this.subscribers.set(id, webContents): a key the Map holds keeps its place.
Subscribed(subs, id) ==
    IF \E k \in 1..Len(subs) : subs[k] = id THEN subs ELSE Append(subs, id)

\* The loop of tick over the subscribers: a destroyed one is deleted, one whose
\* send throws is deleted, the others are sent the payload.
Delivered_KeepsFailing(subs, wcs, failing) ==
    SelectSeq(subs, LAMBDA w : ~wcs[w].destroyed)

Delivered(subs, wcs, failing) ==
    SelectSeq(subs, LAMBDA w : ~wcs[w].destroyed /\ w \notin failing)

Message(to, payload, byTick) == [ to |-> to, payload |-> payload, tick |-> byTick ]

\* The last statement of the constructor: init().
SteamInitialize(env) ==
    /\ steamInput.handlesReason = "uninitialized"
    /\ steamInput' = [ SteamInit(env) EXCEPT !.subscribers = steamInput.subscribers ]
    /\ UNCHANGED << webContents, sent, ticked, steamOps >>
    /\ UNCHANGED << managerVars, padVars >>

\* The interval fires: tick().
Tick(env, failing) ==
    /\ steamInput.pollInterval
    /\ steamInput.available /\ steamInput.input
    /\ \A w \in failing : IsSubscriber(steamInput.subscribers, w) /\ ~webContents[w].destroyed
    /\ LET r == TickPayload(steamInput, env)
           kept == Delivered(steamInput.subscribers, webContents, failing)
       IN  /\ steamInput' = [ r.sim EXCEPT !.cachedState = r.payload, !.subscribers = kept ]
           /\ sent' = [ k \in 1..Len(kept) |-> Message(kept[k], r.payload, TRUE) ]
    /\ ticked' = (env.query = "ok" /\ env.controller)
    /\ UNCHANGED << webContents, steamOps >>
    /\ UNCHANGED << managerVars, padVars >>

\* subscribe(webContents) of a live renderer; its send returns or throws.
Subscribe(w, sendThrows) ==
    /\ steamOps < MaxSteamOps
    /\ steamInput.handlesReason # "uninitialized"
    /\ ~webContents[w].destroyed
    /\ steamInput' = [ steamInput EXCEPT !.subscribers = Subscribed(@, w) ]
    /\ webContents' = [ webContents EXCEPT ![w].handlers = @ + 1 ]
    /\ sent' = IF sendThrows THEN << >>
               ELSE << Message(w, steamInput.cachedState, FALSE) >>
    /\ steamOps' = steamOps + 1
    /\ UNCHANGED ticked
    /\ UNCHANGED << managerVars, padVars >>

\* unsubscribe(webContents)
Unsubscribe(w) ==
    /\ \E k \in 1..Len(steamInput.subscribers) : steamInput.subscribers[k] = w
    /\ steamInput' = [ steamInput EXCEPT !.subscribers = Unsubscribed(@, w) ]
    /\ sent' = << >>
    /\ UNCHANGED << webContents, ticked, steamOps >>
    /\ UNCHANGED << managerVars, padVars >>

\* A renderer is destroyed.
Destroy(w) ==
    /\ ~webContents[w].destroyed
    /\ webContents' = [ webContents EXCEPT ![w].destroyed = TRUE ]
    /\ UNCHANGED << steamInput, sent, ticked, steamOps >>
    /\ UNCHANGED << managerVars, padVars >>

\* The 'destroyed' event of a renderer reaches the handlers subscribe left.
EmitDestroyed(w) ==
    /\ webContents[w].destroyed
    /\ webContents[w].handlers > 0
    /\ webContents' = [ webContents EXCEPT ![w].handlers = 0 ]
    /\ steamInput' = [ steamInput EXCEPT !.subscribers = Unsubscribed(@, w) ]
    /\ sent' = << >>
    /\ UNCHANGED << ticked, steamOps >>
    /\ UNCHANGED << managerVars, padVars >>

\* dispose()
Dispose ==
    /\ steamInput.pollInterval
    /\ steamInput' = [ steamInput EXCEPT !.pollInterval = FALSE ]
    /\ sent' = << >>
    /\ UNCHANGED << webContents, ticked, steamOps >>
    /\ UNCHANGED << managerVars, padVars >>

NextSteam ==
    \/ \E env \in SteamEnvs : SteamInitialize(env)
    \/ \E env \in TickEnvs, failing \in SUBSET WcIds : Tick(env, failing)
    \/ \E w \in WcIds, sendThrows \in BOOLEAN : Subscribe(w, sendThrows)
    \/ \E w \in WcIds : Unsubscribe(w)
    \/ \E w \in WcIds : Destroy(w)
    \/ \E w \in WcIds : EmitDestroyed(w)
    \/ Dispose

InitSteam ==
    /\ disk = [ d \in Dirs |-> Absent ]
    /\ readable = DOMAIN getPluginDirs
    /\ Constructed

SpecSteam == InitSteam /\ [][NextSteam]_vars

(***************************************************************************)
(* The claims.                                                             *)
(***************************************************************************)
Count(seq, x) == Cardinality({ k \in 1..Len(seq) : seq[k] = x })

\* Record i is one loadAll activates: enabled, with a module that has an entry
\* point.
Eligible(i) ==
    /\ plugins[i].enabled
    /\ plugins[i].mod # NoMod
    /\ EntryPoint(plugins[i].mod) # "none"

\* The activation pass is past record i.
Passed(i) == pc = "idle" \/ (pc \in { "activate", "call" } /\ i < actIdx)

\* A pass has run and its loadAll is over.
PassOver == pc = "idle" /\ passNo > 0

\* C1: an activation entry point that throws is caught inside loadAll, which
\* returns normally, and every record the activation pass has passed that is
\* enabled and has a loaded module was invoked exactly once, the records after
\* a throwing one included.
C1_ActivationIsolated ==
    /\ PassOver => result = "returned"
    /\ pc # "enter" =>
           \A i \in 1..Len(plugins) :
               /\ (Eligible(i) /\ Passed(i)) => Count(invoked, i) = 1
               /\ Count(invoked, i) <= 1

\* A pass is over in which a plugin whose entry point throws was invoked, and
\* a record after it was invoked too.
C1_Witness ==
    /\ PassOver
    /\ result = "returned"
    /\ \E i, j \in 1..Len(plugins) :
           /\ i < j
           /\ plugins[i].mod.code = "thrower"
           /\ Count(invoked, i) = 1
           /\ Count(invoked, j) = 1

\* Record i is enabled and declares a main module that throws while loading.
LoadFails(i) ==
    /\ plugins[i].enabled
    /\ plugins[i].manifest.main # ""
    /\ LoadThrows(disk[SlotOf(plugins[i].dir)].code)

\* The candidates with a manifest that parses, in scan order.
Parseable == SelectSeq(ScanList, ManifestParses)

\* C2: loadAll returns normally; once its scan is over every candidate of both
\* roots was scanned and every one whose manifest parses has its record, the
\* ones whose main module throws while loading with no module handle and never
\* invoked, the other enabled ones with a main module loaded, and at the end
\* of the pass every eligible record was invoked.
C2_LoadFailureIsolated ==
    /\ PassOver => result = "returned"
    /\ pc \in { "activate", "call" } =>
           /\ visited = ScanList
           /\ [ i \in 1..Len(plugins) |-> SlotOf(plugins[i].dir) ] = Parseable
           /\ \A i \in 1..Len(plugins) :
                  /\ LoadFails(i) =>
                         /\ plugins[i].mod = NoMod
                         /\ plugins[i].mainPath = NoPath
                         /\ Count(invoked, i) = 0
                  /\ (plugins[i].enabled /\ plugins[i].manifest.main # "" /\ ~LoadFails(i))
                         => plugins[i].mod # NoMod
                  /\ (actIdx > Len(plugins) /\ Eligible(i)) => Count(invoked, i) = 1

\* The pass ends with a record whose main module threw while loading, and a
\* record of the other root, scanned after it, loaded and invoked.
C2_Witness ==
    /\ pc = "activate"
    /\ actIdx > Len(plugins)
    /\ \E i, j \in 1..Len(plugins) :
           /\ i < j
           /\ LoadFails(i)
           /\ plugins[i].mod = NoMod
           /\ plugins[j].dir[1] = "user"
           /\ Count(invoked, j) = 1

\* C3: no call a plugin makes on its context throws into the plugin's code.
C3_RegistrationNeverThrows == ctxResult # "threw"

\* C4: when a pass is over, the two aggregators hold exactly what that pass
\* contributed.
C4_AggregatorsRebuilt ==
    PassOver =>
        /\ webRequestHandlers = produced.web
        /\ contextMenuContribs = produced.menu

\* C5: the record list, the preload list and the page registrations hold
\* exactly what the most recent pass built; while a pass runs every record is
\* of a directory that is on the disk, no directory has two records, and
\* every page is of a plugin of this pass.
C5_RebuiltFromDisk ==
    /\ plugins = produced.plugins
    /\ rendererPreloads = produced.preloads
    /\ rendererPages = produced.pages
    /\ pc \in { "scan", "activate", "call" } =>
           /\ \A i \in 1..Len(plugins) :
                  /\ disk[SlotOf(plugins[i].dir)].kind = "dir"
                  /\ \A j \in 1..Len(plugins) : plugins[i].dir = plugins[j].dir => i = j
           /\ \A k \in 1..Len(rendererPages) :
                  \E i \in 1..Len(plugins) : plugins[i].id = rendererPages[k].pluginId

\* A second pass is over after a plugin, loaded by the first pass, was removed
\* from the disk: it has no record and no page.
C5_Witness ==
    /\ PassOver
    /\ passNo = 2
    /\ \E d \in Dirs :
           /\ disk[d].kind = "absent"
           /\ \E e \in requireCache : SlotOf(e.path) = d /\ e.mod.code = "pager"
           /\ \A i \in 1..Len(plugins) : SlotOf(plugins[i].dir) # d
           /\ rendererPages = << >>

\* Candidates of the bundled root and of the user root that declare one id.
SameIdPair(d1, d2) ==
    /\ RootOf(d1) = 1
    /\ RootOf(d2) = 2
    /\ disk[d1].kind = "dir"
    /\ disk[d2].kind = "dir"
    /\ ManifestParses(d1)
    /\ ManifestParses(d2)
    /\ RecordId(disk[d1].manifest, d1) = RecordId(disk[d2].manifest, d2)

\* C6: once the scan is over, two candidates, one per root, that declare the
\* same id have a record each, the bundled one first, and at the end of the
\* pass both were invoked if both are enabled and loaded.
C6_SameIdBothKept ==
    pc \in { "activate", "call" } =>
        \A d1, d2 \in Dirs :
            SameIdPair(d1, d2) =>
                \E i, j \in 1..Len(plugins) :
                    /\ i < j
                    /\ plugins[i].dir = DirPath(d1)
                    /\ plugins[j].dir = DirPath(d2)
                    /\ plugins[i].id = plugins[j].id
                    /\ (actIdx > Len(plugins) /\ Eligible(i) /\ Eligible(j))
                           => (Count(invoked, i) = 1 /\ Count(invoked, j) = 1)

\* The pass ends with two records of one id, one per root, both invoked.
C6_Witness ==
    /\ pc = "activate"
    /\ actIdx > Len(plugins)
    /\ \E i, j \in 1..Len(plugins) :
           /\ i < j
           /\ plugins[i].id = plugins[j].id
           /\ plugins[i].dir[1] = "app"
           /\ plugins[j].dir[1] = "user"
           /\ Count(invoked, i) = 1
           /\ Count(invoked, j) = 1

\* The records reload(id) is about: those with the id, or, without an id, all.
ReloadTargets(id) ==
    { i \in 1..Len(plugins) : id = "" \/ plugins[i].id = id }

\* C7: reload(id) takes from the module cache the module of the record it finds
\* for the id and of no record with another id, reload() that of every record;
\* it adds nothing to the cache, keeps the records of the pass before, and
\* enters loadAll, whose scan is the only place where modules are loaded.
C7_ReloadDropsCached ==
    /\ [][ \A id \in IdArgs \cup { "" } :
               CallReload(id) =>
                   /\ requireCache' \subseteq requireCache
                   /\ \A e \in requireCache \ requireCache' :
                          \E i \in ReloadTargets(id) : plugins[i].mainPath = e.path
                   /\ \A i \in ReloadTargets(id) :
                          (id = "" \/ i = Find(id))
                              => ~Cached(requireCache', plugins[i].mainPath)
                   /\ plugins' = plugins
                   /\ pc' = "enter" ]_vars
    /\ [][ (requireCache' \ requireCache # { }) => pc = "scan" ]_vars
    /\ [][ (pc = "enter" /\ pc' # "enter") => (pc' = "scan" /\ passNo' = passNo + 1) ]_vars

\* reload(id) has dropped the module of one record and kept that of another.
C7_Witness ==
    /\ pc = "enter"
    /\ call.name = "reload"
    /\ call.id # ""
    /\ \E i, j \in 1..Len(plugins) :
           /\ plugins[i].mainPath # NoPath
           /\ ~Cached(requireCache, plugins[i].mainPath)
           /\ plugins[j].mainPath # NoPath
           /\ Cached(requireCache, plugins[j].mainPath)

\* The plugin is at a registerRendererPage call with an id and an html path
\* that are not empty.
AtValidPageCall ==
    /\ AtCall("registerRendererPage")
    /\ CurCall.hasArg
    /\ CurCall.name # ""
    /\ CurCall.html.kind = "string"
    /\ ~Falsy(CurCall.html)

\* The plugin is at a registerRendererPage call with an empty id or html.
AtEmptyPageCall ==
    /\ AtCall("registerRendererPage")
    /\ CurCall.hasArg
    /\ (CurCall.name = "" \/ Falsy(CurCall.html))

\* What getRendererPages returns, as values.
ReturnedPages == [ i \in 1..Len(getRendererPages.list) |-> getRendererPages.list[i].val ]

\* C8: a registerRendererPage call with an id and an html path that are not
\* empty adds exactly one entry, with the file URL of html and the id of the
\* calling plugin; a call with an empty id or html adds nothing; when the pass
\* is over getRendererPages returns the entries added.
C8_PageRegistered ==
    /\ [][ AtValidPageCall =>
               rendererPages' = Append(rendererPages,
                   [ id |-> CurCall.name, file |-> CurCall.html,
                     fileUrl |-> [ scheme |-> "file",
                                   segs |-> IF CurCall.html.abs THEN CurCall.html.segs
                                            ELSE Cwd \o CurCall.html.segs ],
                     pluginId |-> Cur.id ]) ]_vars
    /\ [][ AtEmptyPageCall => rendererPages' = rendererPages ]_vars
    /\ [](PassOver => ReturnedPages = produced.pages)

\* The pass is over and the caller got the page a plugin registered, with its
\* file URL.
C8_Witness ==
    /\ PassOver
    /\ held.valid
    /\ \E k \in 1..Len(held.list) :
           /\ held.list[k].val = PageEntry("pg", AbsHtml,
                  [ scheme |-> "file", segs |-> << "abs", "page.html" >> ], "p")
           /\ Count(rendererPages, held.list[k].val) = 1

\* C9: the page registrations change only in loadAll's first statements and in
\* a registerRendererPage call, whatever a caller does to what it got.
C9_ReturnedPagesAreCopies ==
    [][ rendererPages' # rendererPages
            => (pc = "enter" \/ AtCall("registerRendererPage")) ]_vars

\* The caller has changed the list it got, and the manager's pages are what
\* they were.
C9_Witness ==
    /\ PassOver
    /\ held.valid
    /\ callerOps > 0
    /\ Len(rendererPages) > 0
    /\ rendererPages = produced.pages
    /\ [ i \in 1..Len(held.list) |-> held.list[i].val ] # rendererPages

\* C10: setEnabled with an id no record has rejects with the not-found error,
\* starts no write and leaves the disk as it is.
C10_SetEnabledNotFound ==
    [][ \A id \in IdArgs, enabled \in BOOLEAN :
            (Find(id) = 0 /\ CallSetEnabled(id, enabled)) =>
                /\ result' = "not-found"
                /\ inflight' = inflight
                /\ disk' = disk ]_vars

\* setEnabled was rejected as not found on a registry that has records.
C10_Witness ==
    /\ result = "not-found"
    /\ Len(plugins) > 0
    /\ inflight = << >>

\* The manifest of slot d is there and parses.
Readable(d) == disk[d].kind = "dir" /\ ManifestParses(d)

\* C11: setEnabled resolves only when its write has gone through, and what the
\* write puts into the file is the manifest as read with enabled set to the
\* value asked for; a manifest that cannot be read or parsed rejects the call
\* at once and starts no write, and a write that fails rejects it.
C11_SetEnabledSurfacesFailure ==
    /\ [][ \A k \in 1..Len(inflight) :
               SetEnabledSettle(k) =>
                   /\ (result' = "ok") = (inflight[k].stage = "written")
                   /\ (inflight[k].stage = "failed") = (result' = "write-failed") ]_vars
    /\ [][ \A k \in 1..Len(inflight) :
               (WriteData(k) /\ disk[inflight[k].slot].kind = "dir") =>
                   /\ disk'[inflight[k].slot].manifest.enabled =
                          (IF inflight[k].asked THEN "true" ELSE "false")
                   /\ ManifestParses(inflight[k].slot)' ]_vars
    /\ [][ \A id \in IdArgs, enabled \in BOOLEAN :
               (CallSetEnabled(id, enabled) /\ Find(id) # 0
                    /\ ~Readable(SlotOf(plugins[Find(id)].dir))) =>
                   /\ result' = "read-failed"
                   /\ inflight' = inflight ]_vars
    /\ [][ (result # "ok" /\ result' = "ok")
               => \E k \in 1..Len(inflight) : SetEnabledSettle(k) ]_vars

\* A setEnabled(id, false) has resolved: the file of a plugin that the last pass
\* loaded as enabled now says enabled: false.
C11_Witness ==
    /\ result = "ok"
    /\ \E i \in 1..Len(plugins) :
           /\ plugins[i].enabled
           /\ Readable(SlotOf(plugins[i].dir))
           /\ disk[SlotOf(plugins[i].dir)].manifest.enabled = "false"

\* C12: a scan that runs while a setEnabled write is under way reads each
\* manifest as it was before or as it is after the write, so that every
\* candidate it meets (all manifests are parseable before and after) gets its
\* record.
C12_WriteIsAtomic ==
    pc \in { "activate", "call" } =>
        [ i \in 1..Len(plugins) |-> SlotOf(plugins[i].dir) ] = visited

\* The directories of the roots that can be listed whose manifest parses.
Listable ==
    { d \in Dirs : RootOf(d) \in readable /\ disk[d].kind = "dir" /\ disk[d].manifest.ok }

\* C13: discoverPlugins returns exactly one descriptor for every directory with
\* a parseable manifest, with enabled false exactly for those whose manifest
\* says enabled: false, and loads, activates and registers nothing.
C13_DiscoverListsDisabled ==
    [][ CallDiscoverPlugins =>
            /\ { listed'.list[i].dir : i \in 1..Len(listed'.list) }
                   = { DirPath(d) : d \in Listable }
            /\ Len(listed'.list) = Cardinality(Listable)
            /\ \A i \in 1..Len(listed'.list) :
                   listed'.list[i].enabled
                       = (disk[SlotOf(listed'.list[i].dir)].manifest.enabled # "false")
            /\ requireCache' = requireCache
            /\ invoked' = invoked
            /\ plugins' = plugins
            /\ pc' = "idle"
            /\ << ipcHandlers, listeners, webRequestHandlers, contextMenuContribs,
                  rendererPages, rendererPreloads >>' =
               << ipcHandlers, listeners, webRequestHandlers, contextMenuContribs,
                  rendererPages, rendererPreloads >> ]_vars

\* Before any pass, discoverPlugins has listed a disabled plugin next to an
\* enabled one, and no module is loaded.
C13_Witness ==
    /\ listed.by = "discoverPlugins"
    /\ passNo = 0
    /\ requireCache = { }
    /\ \E i, j \in 1..Len(listed.list) :
           /\ ~listed.list[i].enabled
           /\ listed.list[j].enabled
           /\ disk[SlotOf(listed.list[i].dir)].manifest.main # ""

\* The candidates loadAll and discoverPlugins are to process, in scan order.
WellFormed ==
    SelectSeq(<< "a1", "a2", "u1" >>,
              LAMBDA d : RootOf(d) \in readable /\ disk[d].kind = "dir" /\ disk[d].manifest.ok)

\* C20: loadAll returns normally with one record for every directory of a
\* listable root whose manifest parses and for no other; discoverPlugins
\* returns one descriptor for each of the same directories and for no other.
C20_BadManifestSkipped ==
    /\ [](PassOver => result = "returned")
    /\ [](pc \in { "activate", "call" } =>
              [ i \in 1..Len(plugins) |-> plugins[i].dir ]
                  = [ i \in 1..Len(WellFormed) |-> DirPath(WellFormed[i]) ])
    /\ [][ CallDiscoverPlugins =>
               /\ [ i \in 1..Len(listed'.list) |-> listed'.list[i].dir ]
                      = [ i \in 1..Len(WellFormed) |-> DirPath(WellFormed[i]) ]
               /\ pc' = "idle" ]_vars

\* A pass is over and discoverPlugins has run with a root that cannot be listed
\* and, in the other root, a directory without a parseable manifest next to a
\* plugin that got its record and its descriptor.
C20_Witness ==
    /\ PassOver
    /\ listed.by = "discoverPlugins"
    /\ readable = { 1 }
    /\ disk["u1"].kind = "dir"
    /\ disk["a1"].kind = "dir"
    /\ ~disk["a1"].manifest.ok
    /\ Len(plugins) = 1
    /\ plugins[1].dir = DirPath("a2")
    /\ Len(listed.list) = 1
    /\ listed.list[1].dir = DirPath("a2")

\* The management surface holds the listing discoverPlugins gives of the disk
\* as it is, and id is the id of one of its descriptors.
ListedNow(id) ==
    /\ listed.by = "discoverPlugins"
    /\ listed.list = discoverPlugins
    /\ \E i \in 1..Len(listed.list) : listed.list[i].id = id

\* C14 as claimed: setEnabled with the id of a listed descriptor is not
\* rejected as not found.
C14_ListedCanBeToggled ==
    [][ \A id \in IdArgs, enabled \in BOOLEAN :
            (ListedNow(id) /\ CallSetEnabled(id, enabled)) => result' # "not-found" ]_vars

\* C14 as amended: setEnabled with the id of a listed descriptor is rejected as
\* not found exactly when the registry the last pass built has no record with
\* that id.
C14_ListedAndLoadedCanBeToggled ==
    [][ \A id \in IdArgs, enabled \in BOOLEAN :
            (ListedNow(id) /\ CallSetEnabled(id, enabled)) =>
                (result' = "not-found") = (\A i \in 1..Len(plugins) : plugins[i].id # id) ]_vars

\* The write that enables a plugin listed as disabled has started.
C14_Witness ==
    /\ result = "pending"
    /\ listed.by = "discoverPlugins"
    /\ Len(inflight) = 1
    /\ inflight[1].asked
    /\ inflight[1].stage = "pending"
    /\ \E i \in 1..Len(listed.list) :
           /\ ~listed.list[i].enabled
           /\ SlotOf(listed.list[i].dir) = inflight[1].slot

\* The usable names of the elements of an authors array, in order: a string
\* that is not empty, the name of an object when it is a string that is not
\* empty.
UsableNames(items) ==
    SelectSeq([ k \in 1..Len(items) |->
                  IF items[k].t \in { "string", "named" } THEN Str(items[k].s) ELSE Str("") ],
              LAMBDA x : x.s # "")

\* C18: the authors that discoverPlugins and getPluginsInfo report for a
\* manifest whose authors is an array are the usable names of its elements, in
\* order, and nothing else.
C18_AuthorsOnlyStrings ==
    \A i \in 1..Len(listed.list) :
        LET au == disk[SlotOf(listed.list[i].dir)].manifest.authors
        IN  au.t = "array" => listed.list[i].authors = UsableNames(au.items)

\* C19: the categories that discoverPlugins and getPluginsInfo report are [x]
\* for a string x, the strings of an array in order, and empty when the field
\* is absent.
C19_CategoriesNormalized ==
    \A i \in 1..Len(listed.list) :
        LET cats == disk[SlotOf(listed.list[i].dir)].manifest.categories
        IN  /\ cats.t = "string" => listed.list[i].categories = << [ t |-> "string", s |-> cats.s ] >>
            /\ cats.t = "array" =>
                   listed.list[i].categories = SelectSeq(cats.items, LAMBDA x : x.t = "string")
            /\ cats.t = "absent" => listed.list[i].categories = << >>

\* getPluginsInfo has reported, after a pass, the one string of a categories
\* array that also holds a number.
C19_Witness ==
    /\ PassOver
    /\ listed.by = "getPluginsInfo"
    /\ Len(listed.list) = 1
    /\ disk["a1"].manifest.categories.t = "array"
    /\ disk["a1"].manifest.categories.items = << Num("7"), Str("x") >>
    /\ listed.list[1].categories = << Str("x") >>

\* C15: for every intercepted request and every attached hook, the hook calls
\* the request's callback exactly once: with the listener's result when the
\* listener returned an object, with { cancel: false } when it returned
\* another value or threw.
C15_CallbackExactlyOnce ==
    dispatch.op = "request" =>
        /\ Len(calls) = 1
        /\ calls[1].cb = RequestCallback
        /\ calls[1].args = IF dispatch.name = "object" THEN "res" ELSE "cancel:false"

\* A second hook whose listener threw has answered the request.
C15_Witness ==
    /\ dispatch.op = "request"
    /\ dispatch.name = "throws"
    /\ dispatch.idx = 2
    /\ Len(calls) = 1

\* C16: applyContextMenuContrib calls every stored contributor once, in
\* registration order, with the arguments it was given, also after a
\* contributor that threw, and it returns normally.
C16_EveryContributorCalled ==
    [][ (pc = "menu" /\ pc' = "idle") =>
            /\ result' = "returned"
            /\ Len(calls') = Len(contextMenuContribs)
            /\ \A k \in 1..Len(calls') :
                   /\ calls'[k].cb = contextMenuContribs[k]
                   /\ calls'[k].args = dispatch.args ]_vars

\* A context menu was built by two contributors, the first of which threw.
C16_Witness ==
    /\ pc = "idle"
    /\ dispatch.op = "menu"
    /\ result = "returned"
    /\ Len(calls) >= 2
    /\ calls[1].outcome = "throws"
    /\ calls[2].cb = contextMenuContribs[2]

\* C17: emit calls every subscriber of the name once, in registration order,
\* with the given arguments, also after a subscriber that threw; on a name
\* without subscribers it calls nothing, and it does not throw.
C17_EmitDelivers ==
    [][ /\ result' # "emit-threw"
        /\ (pc = "emit" /\ pc' = "idle") =>
              /\ result' = "returned"
              /\ Len(calls') = Len(EmitList(listeners, dispatch.name))
              /\ \A k \in 1..Len(calls') :
                     /\ calls'[k].cb = EmitList(listeners, dispatch.name)[k]
                     /\ calls'[k].args = dispatch.args ]_vars

\* Whether a record has a module handle: mod is neither null nor another
\* falsy value.
HasHandle(p) == p.mod # NoMod /\ Shape(p.mod.code) # "falsy"

\* C21: loadAll activates an enabled record with a loaded module at most once
\* per pass, and by the module's shape: activate(ctx) when the module has a
\* function activate (also when the module is callable itself), else the
\* module as fn(ctx) when it is a function, else nothing, without an error.
C21_ActivationByShape ==
    [][ (pc = "activate" /\ actIdx <= Len(plugins) /\ plugins[actIdx].enabled
            /\ HasHandle(plugins[actIdx])) =>
          /\ CASE Shape(plugins[actIdx].mod.code) \in { "activate", "both" } ->
                       pc' = "call" /\ entry' = "activate"
                [] Shape(plugins[actIdx].mod.code) = "function" ->
                       pc' = "call" /\ entry' = "module"
                [] OTHER ->
                       /\ pc' = "activate"
                       /\ actIdx' = actIdx + 1
                       /\ invoked' = invoked
                       /\ result' = result
          /\ \A i, j \in 1..Len(invoked') : invoked'[i] = invoked'[j] => i = j ]_vars

\* The activate of a module that is callable itself is running.
C21_Witness ==
    /\ pc = "call"
    /\ Shape(Cur.mod.code) = "both"
    /\ entry = "activate"
    /\ callIdx = 2

\* Candidate d1 is discovered before d2: its root comes first, or they are in
\* one root and d1 is listed first.
DiscoveredBefore(d1, d2) ==
    \/ RootOf(d1) < RootOf(d2)
    \/ /\ RootOf(d1) = RootOf(d2)
       /\ \E k1, k2 \in 1..Len(Entries(Roots[RootOf(d1)])) :
              /\ Entries(Roots[RootOf(d1)])[k1] = d1
              /\ Entries(Roots[RootOf(d1)])[k2] = d2
              /\ k1 < k2

\* C22: within a pass the plugins are activated in discovery order (bundled
\* root before user root, listing order within a root), one activation at a
\* time, and none before every candidate of both roots is scanned and loaded.
C22_ActivationOrder ==
    /\ pc = "scan" => invoked = << >>
    /\ pc \in { "activate", "call" } =>
          /\ { visited[k] : k \in 1..Len(visited) } = { d \in Dirs : disk[d].kind # "absent" }
          /\ { SlotOf(plugins[i].dir) : i \in 1..Len(plugins) }
                 = { d \in Dirs : disk[d].kind = "dir" /\ disk[d].manifest.ok }
          /\ \A i, j \in 1..Len(plugins) :
                 i < j => DiscoveredBefore(SlotOf(plugins[i].dir), SlotOf(plugins[j].dir))
          /\ \A i, j \in 1..Len(invoked) : i < j => invoked[i] < invoked[j]
          /\ \A k \in 1..Len(invoked) :
                 invoked[k] < actIdx \/ (pc = "call" /\ k = Len(invoked) /\ invoked[k] = actIdx)

\* The plugin of the user root is being activated, after two bundled ones.
C22_Witness ==
    /\ pc = "call"
    /\ Len(invoked) = 3
    /\ RootOf(SlotOf(Cur.dir)) = 2
    /\ RootOf(SlotOf(plugins[invoked[1]].dir)) = 1
    /\ RootOf(SlotOf(plugins[invoked[2]].dir)) = 1

\* C23: in a pass started by reload(id), a record with that id that is
\* activated runs a module instance loaded in this pass, never one that was
\* cached before, also when two records share the id.
C23_ReloadedRunsFreshCode ==
    (pc = "call" /\ began.name = "reload" /\ began.id # "" /\ Cur.id = began.id)
        => Cur.mod.gen = passNo

\* Whether loading the main module of candidate d succeeds now: the plugin is
\* enabled, declares main, and require returns (a cached instance, or a file
\* that loads without throwing).
LoadSucceeds(d) ==
    /\ disk[d].manifest.enabled # "false"
    /\ disk[d].manifest.main # ""
    /\ \/ Cached(requireCache, PathJoin(DirPath(d), disk[d].manifest.main))
       \/ ~LoadThrows(disk[d].code)

\* C25: every record of the registry has a module handle only if it is
\* enabled, declares main and the load of main succeeded in the pass that built
\* it, and has mainPath set exactly when that load succeeded; the main module
\* of a disabled plugin is not loaded and its preload is not collected.
C25_RecordInvariant ==
    [][ /\ \A i \in 1..Len(plugins') :
              /\ HasHandle(plugins'[i]) =>
                     /\ plugins'[i].enabled
                     /\ plugins'[i].manifest.main # ""
                     /\ plugins'[i].mainPath # NoPath
              /\ ~plugins'[i].enabled =>
                     plugins'[i].mod = NoMod /\ plugins'[i].mainPath = NoPath
        /\ (pc = "scan" /\ Len(plugins') = Len(plugins) + 1) =>
              LET d == ScanList[scanIdx]
                  r == plugins'[Len(plugins')]
              IN  /\ r.dir = DirPath(d)
                  /\ (r.mainPath # NoPath) = LoadSucceeds(d)
                  /\ r.mainPath # NoPath =>
                         r.mainPath = PathJoin(DirPath(d), disk[d].manifest.main)
                  /\ HasHandle(r) => LoadSucceeds(d)
                  /\ disk[d].manifest.enabled = "false" =>
                         /\ requireCache' = requireCache
                         /\ rendererPreloads' = rendererPreloads ]_vars

\* A pass has registered a disabled plugin that declares a preload, a plugin
\* whose main module loaded and exports a falsy value, a plugin whose main
\* module threw, and one with a module handle.
C25_Witness ==
    /\ pc = "idle"
    /\ passNo > 0
    /\ \E i \in 1..Len(plugins) :
           /\ ~plugins[i].enabled
           /\ plugins[i].manifest.rendererPreload # ""
           /\ plugins[i].manifest.main # ""
    /\ \E i \in 1..Len(plugins) : plugins[i].mainPath # NoPath /\ ~HasHandle(plugins[i])
    /\ \E i \in 1..Len(plugins) : HasHandle(plugins[i])

\* The preload paths a pass over the disk collects, in discovery order: of
\* the enabled candidates that declare a preload whose file exists.
PreloadsOnDisk ==
    LET all  == Entries(Roots[1]) \o Entries(Roots[2])
        with == SelectSeq(all, LAMBDA d : /\ disk[d].kind = "dir"
                                          /\ disk[d].manifest.ok
                                          /\ disk[d].manifest.enabled # "false"
                                          /\ disk[d].manifest.rendererPreload # ""
                                          /\ disk[d].preloadExists)
    IN  [ k \in 1..Len(with) |->
            PathJoin(DirPath(with[k]), disk[with[k]].manifest.rendererPreload) ]

\* The position of the first occurrence of x in seq.
FirstAt(seq, x) == CHOOSE k \in 1..Len(seq) : seq[k] = x /\ \A j \in 1..(k - 1) : seq[j] # x

\* C27: after loadAll, getRendererPreloads() returns, without duplicates and
\* in discovery order, exactly the preload paths of the enabled candidates
\* that declare a preload whose file exists, whether or not main loaded.
C27_PreloadsReturned ==
    [][ (pc = "idle" /\ passNo > 0 /\ listed' # listed
            /\ listed'.by = "getRendererPreloads") =>
          LET r == listed'.list
          IN  /\ \A i, j \in 1..Len(r) : r[i] = r[j] => i = j
              /\ { r[k] : k \in 1..Len(r) }
                     = { PreloadsOnDisk[k] : k \in 1..Len(PreloadsOnDisk) }
              /\ \A i, j \in 1..Len(r) :
                     i < j => FirstAt(PreloadsOnDisk, r[i]) < FirstAt(PreloadsOnDisk, r[j]) ]_vars

\* inflight without its k-th entry.
Without(k) == SubSeq(inflight, 1, k - 1) \o SubSeq(inflight, k + 1, Len(inflight))

\* C24: when setEnabled(id, b) has resolved successfully, discoverPlugins()
\* reports enabled = b in every descriptor with that id, and the record a
\* reload builds of every candidate with that id has enabled = b and is loaded
\* only if b is true.
C24_ToggleReachesEveryRecord ==
    [][ \A k \in 1..Len(inflight) :
          (inflight[k].stage = "written" /\ inflight' = Without(k) /\ result' = "ok") =>
              LET id == RecordId(inflight[k].content, inflight[k].slot)
                  b  == inflight[k].asked
              IN  /\ \A i \in 1..Len(discoverPlugins) :
                         discoverPlugins[i].id = id => discoverPlugins[i].enabled = b
                  /\ \A n \in 1..Len(ScanList) :
                         (ManifestParses(ScanList[n])
                             /\ BuildRecord(ScanList[n]).record.id = id) =>
                            /\ BuildRecord(ScanList[n]).record.enabled = b
                            /\ ~b => BuildRecord(ScanList[n]).record.mod = NoMod ]_vars

\* What the manager holds in memory, and what its plugins registered.
InMemory ==
    << plugins, rendererPreloads, rendererPages, listeners, webRequestHandlers,
       contextMenuContribs, ipcHandlers, requireCache >>

\* Two manifests differ in nothing but enabled.
SameButEnabled(m1, m2) == [ m1 EXCEPT !.enabled = "any" ] = [ m2 EXCEPT !.enabled = "any" ]

\* C30: a successful setEnabled(id, b) changes the enabled field of the
\* manifest file of the first record with that id and nothing else on disk,
\* and nothing in memory.
C30_SetEnabledFrame ==
    /\ [][ \A id \in IdArgs, b \in BOOLEAN :
              CallSetEnabled(id, b) =>
                  /\ InMemory' = InMemory
                  /\ disk' = disk
                  /\ Len(inflight') > Len(inflight) =>
                        LET w == inflight'[Len(inflight')]
                        IN  /\ \E i \in 1..Len(plugins) :
                                   /\ plugins[i].id = id
                                   /\ \A j \in 1..(i - 1) : plugins[j].id # id
                                   /\ w.slot = SlotOf(plugins[i].dir)
                            /\ SameButEnabled(w.content, disk[w.slot].manifest)
                            /\ w.content.enabled = IF b THEN "true" ELSE "false" ]_vars
    /\ [][ \A k \in 1..Len(inflight) :
              (WriteOpen(k) \/ WriteData(k) \/ SetEnabledSettle(k)) =>
                  /\ InMemory' = InMemory
                  /\ \A d \in Dirs : d # inflight[k].slot => disk'[d] = disk[d]
                  /\ disk'[inflight[k].slot] = disk[inflight[k].slot]
                        \/ disk'[inflight[k].slot] =
                              [ disk[inflight[k].slot] EXCEPT !.manifest = Truncated ]
                        \/ disk'[inflight[k].slot] =
                              [ disk[inflight[k].slot] EXCEPT !.manifest = inflight[k].content ]
                  /\ (WriteData(k) /\ disk[inflight[k].slot].kind = "dir") =>
                        disk'[inflight[k].slot].manifest = inflight[k].content ]_vars

\* setEnabled('p', false) has resolved where two loaded plugins share the id:
\* the first one's file says enabled: false, the second one's is as it was, and
\* the registry still has both enabled, the first with its module.
C30_Witness ==
    /\ result = "ok"
    /\ Len(plugins) = 2
    /\ plugins[1].id = plugins[2].id
    /\ plugins[1].enabled /\ plugins[2].enabled
    /\ HasHandle(plugins[1])
    /\ rendererPreloads # << >>
    /\ disk[SlotOf(plugins[1].dir)].manifest.enabled = "false"
    /\ disk[SlotOf(plugins[2].dir)].manifest.enabled = "true"

\* C26: applyWebRequestHandlers(ses) attaches one hook per stored entry, in
\* registration order, with the entry's filter or an empty one; an attach that
\* fails does not keep the later entries from being attached; without a
\* session, or with one that has no webRequest, it attaches nothing; it does
\* not throw, and it leaves the stored entries as they are.
C26_OneHookPerEntry ==
    [][ \A ses \in Sessions :
          ApplyWebRequestHandlers(ses) =>
              /\ webRequestHandlers' = webRequestHandlers
              /\ result' = "returned"
              /\ IF ses # "session"
                 THEN calls' = << >> /\ hooks' = hooks
                 ELSE /\ Len(calls') = Len(webRequestHandlers)
                      /\ \A k \in 1..Len(calls') :
                             /\ calls'[k].cb = webRequestHandlers[k].listener
                             /\ calls'[k].args = IF webRequestHandlers[k].filter = "undefined"
                                                 THEN "{}"
                                                 ELSE webRequestHandlers[k].filter
                      /\ Len(hooks') = Len(hooks)
                             + Cardinality({ k \in 1..Len(calls') : calls'[k].outcome = "returns" })
                      /\ \A k \in 1..Len(calls') :
                             calls'[k].outcome = "returns" =>
                                 \E n \in (Len(hooks) + 1)..Len(hooks') :
                                     /\ hooks'[n].listener = calls'[k].cb
                                     /\ hooks'[n].filter = calls'[k].args
                                     /\ hooks'[n].entry = k
                      /\ \A m, n \in (Len(hooks) + 1)..Len(hooks') :
                             m < n => hooks'[m].entry < hooks'[n].entry ]_vars

\* Of three stored entries the attach of the first failed and the two after
\* it were attached, one of them with an empty filter.
C26_Witness ==
    /\ dispatch.op = "attach"
    /\ Len(calls) = 3
    /\ calls[1].outcome = "throws"
    /\ Len(hooks) = 2
    /\ hooks[1].entry = 2
    /\ hooks[2].entry = 3
    /\ \E n \in 1..2 : hooks[n].filter = "{}"

\* C28: emit invokes only subscribers the activations of the most recent pass
\* registered (the host registers none here): each function once, and none of
\* a plugin that the most recent pass did not activate.
C28_OnlyCurrentSubscribers ==
    [][ (pc = "emit" /\ pc' = "idle") =>
          /\ \A i, j \in 1..Len(calls') : calls'[i].cb = calls'[j].cb => i = j
          /\ \A k \in 1..Len(calls') :
                 \/ calls'[k].cb.plugin = "late"
                 \/ \E n \in 1..Len(invoked) :
                        SlotOf(plugins[invoked[n]].dir) = calls'[k].cb.plugin ]_vars

\* C29: the callbacks one emit invokes are those registered when it began,
\* also when a subscriber calls on() for the event during the emit.
C29_EmitCallsThoseAtStart ==
    [][ (pc = "emit" /\ pc' = "idle") => Len(calls') = dispatch.atStart ]_vars

\* Every directory of the disk has a manifest that parses.
EveryManifestParses == \A d \in Dirs : disk[d].kind = "dir" => ManifestParses(d)

\* C31: when every candidate manifest parses, getPluginsInfo() called after
\* loadAll() returned, on the disk that pass scanned, returns the descriptors
\* discoverPlugins() returns on that disk, in the same order.
C31_InfoEqualsDiscover ==
    [][ ( /\ CallGetPluginsInfo
          /\ passNo > 0
          /\ result = "returned"
          /\ EveryManifestParses ) => listed'.list = discoverPlugins ]_vars

\* C32: connectedCount is the number of gamepads tracked, so
\* isGamepadConnected() is true exactly when one is tracked, and the count is
\* never negative.
C32_CountIsTracked ==
    /\ state.connectedCount = Cardinality(state.gamepads)
    /\ isGamepadConnected <=> state.gamepads # {}
    /\ state.connectedCount >= 0

\* C33: a 'button' event is emitted only when the pressed state differs from
\* the last one reported for that pad and button, the first being a press, so
\* the events of one button alternate pressed/released.
C33_ButtonEventsAlternate ==
    [][ (\E scan \in BOOLEAN : PollFrame(scan)) =>
          \A k \in 1..Len(dispatched') :
              dispatched'[k].type = "button" =>
                  ( dispatched'[k].pressed
                      <=> reported[dispatched'[k].index][dispatched'[k].button] # "pressed" )
      ]_vars

\* C34: every listener registered for the type of an emitted event, and not
\* unsubscribed before its turn, is invoked for it, also when another listener
\* unsubscribes or throws during the dispatch; a listener that was unsubscribed
\* is not invoked by a later event.
C34_EveryListenerInvoked ==
    \A k \in 1..Len(dispatched) :
        LET e == dispatched[k]
        IN  /\ \A n \in 1..Len(e.atStart) :
                   \E m \in 1..Len(e.invoked) : e.invoked[m] = e.atStart[n]
            /\ \A m \in 1..Len(e.invoked) :
                   \E n \in 1..Len(e.atStart) : e.atStart[n] = e.invoked[m]

\* C35: a payload with connected: true is cached only when the tick met a
\* controller and handlesReady is true once the payload is cached; when
\* handlesReady is false then, the payload has connected: false and the
\* current handlesReason.
C35_ConnectedOnlyWhenReady ==
    [][ (\E env \in TickEnvs, failing \in SUBSET WcIds : Tick(env, failing)) =>
          /\ steamInput'.cachedState.connected =>
                 (ticked' /\ steamInput'.handlesReady)
          /\ ~steamInput'.handlesReady =>
                 /\ ~steamInput'.cachedState.connected
                 /\ steamInput'.cachedState.reason = steamInput'.handlesReason ]_vars

\* The messages of the latest step that went to renderer w.
SentTo(msgs, w) == { k \in 1..Len(msgs) : msgs[k].to = w }

====
